---- MODULE Spec2Model ----
(***************************************************************************)
(* Registration-code lifecycle and trainer registration of the coaching    *)
(* platform backend (src/backend/main.py).                                 *)
(*                                                                         *)
(* The store (Supabase tables) is the shared state.  Every handler is a    *)
(* sequence of store calls; each store call is one atomic step, so that    *)
(* concurrent requests interleave exactly at the store calls.  The step    *)
(* that performs a select also performs the purely local checks that       *)
(* follow it in the handler, up to the next store call or the response.    *)
(* Store calls succeed except under SpecFaults, where a store call may     *)
(* raise.  Under Spec and SpecSeq the callers of the admin routes are the  *)
(* provisioned admin; SpecAuth, SpecAdmin and SpecQuestions put the bearer *)
(* token and the role dependencies in front of the handlers (login,        *)
(* identity, admin-only and question routes).  SpecToggle, SpecCategories, *)
(* SpecWrites and SpecPassword cover concurrent status toggles, category   *)
(* deletion against question creation, the routes that write, and the      *)
(* change of a password followed by logins.                                *)
(***************************************************************************)
EXTENDS Integers, FiniteSets, Sequences, TLC

(* ------------------------------ bounds -------------------------------- *)
\* requests that may be in flight at the same time
NumProcs == 2
\* rows the registration_codes table ever receives (ids are never reused)
MaxCodes == 2
\* rows the trainers table ever receives
MaxTrainers == 2
\* the clock runs 1..MaxTime
MaxTime == 2
\* requests one run receives when requests are handled concurrently
MaxRequests == 3
\* rows the trainer_questions table ever receives
MaxQuestions == 2
\* ids a request may name in question_categories
MaxCategories == 2

Procs == 1..NumProcs
CodeIds == 1..MaxCodes
TrainerIds == 1..MaxTrainers
QuestionIds == 1..MaxQuestions
CategoryIds == 1..MaxCategories

\* request inputs
CodeStrs == {"WELCOME10", "PROMO"}
AdminEmail == "admin@nutritionbot.com"
Emails == {"ann@x.com", "bob@x.com", AdminEmail}
\* the development credential of login
MockPassword == "admin123"
Passwords == {"pw123", MockPassword}

\* a stored password_hash: its algorithm tag, whether bcrypt.checkpw accepts
\* the rest as a digest, and the password it digests (the salt is left out:
\* checkpw(p, h) holds exactly for the password h was made from)
Digest(tag, sound, pw) == [tag |-> tag, sound |-> sound, pw |-> pw]

\* a hash_password that stores the password as it is
StorePlain(password) == Digest("plain", FALSE, password)

hash_password(password) == Digest("$2b$", TRUE, password)

\* the display name register is given, and the one change_name is given
RegisteredName == "Name"
NewName == "New"

\* the trainer a code of the initial store was redeemed by
OldTrainer == [email |-> "ann@x.com", password_hash |-> hash_password("pw123"),
               name |-> RegisteredName, is_active |-> TRUE]
AdminId == "1a96d102-7805-44f4-9a6e-67bffbf879ff"

\* a null column (ids start at 1)
Null == 0

\* the budget of a run that may receive any number of requests
NoLimit == MaxRequests + 1

(* ---------------------------- expiry values --------------------------- *)
\* expires_at as stored: null, or an ISO timestamp for instant t that
\* either carries a UTC offset ("...Z", "...+00:00") or carries none
NoExpiry == [isnull |-> TRUE, t |-> 0, tz |-> FALSE]

ExpiryAt(t, tz) == [isnull |-> FALSE, t |-> t, tz |-> tz]

\* what create_registration_code is asked to store: no expiry, or instant 1
\* written without or with an offset
ExpiryInputs == {NoExpiry, ExpiryAt(1, FALSE), ExpiryAt(1, TRUE)}

\* a code already in the store may also have expired before the run
\* starts (the clock starts at 1)
ExpirySeeds == ExpiryInputs \cup {ExpiryAt(0, FALSE)}

(* ------------------------------ responses ----------------------------- *)
Resp(status, detail) == [status |-> status, detail |-> detail]

Ok == Resp(200, "ok")
InvalidCode == Resp(400, "Invalid or expired registration code")
AlreadyUsed == Resp(400, "Registration code has already been used")
Expired == Resp(400, "Registration code has expired")
UserExists == Resp(400, "User already exists")
RegistrationFailed == Resp(500, "Registration failed")
CodeExists == Resp(400, "Registration code already exists")
CodeNotFound == Resp(404, "Registration code not found")
CannotDeleteUsed == Resp(400, "Cannot delete registration code that has been used")
Pending == Resp(0, "pending")

(* ------------------------------- state -------------------------------- *)
VARIABLES
    codes,          \* registration_codes: id -> row, for the rows present
    nextCodeId,     \* next id the store gives an inserted code row
    trainers,       \* trainers: id -> row, for the rows present
    nextTrainerId,  \* next id the store gives an inserted trainer row
    admins,         \* admins: id -> row (provisioned outside the program)
    now,            \* datetime.utcnow()
    pc,             \* per request slot: the store call it is about to make
    call,           \* per request slot: the request, its locals, its response
                    \* (failed: a store call of the request raised)
    budget,         \* requests the run may still receive (NoLimit: any number)
    createdFrom,    \* history: trainer id -> the code string it was registered with
    life,           \* history: code id -> admin transitions since it was last active
    questions,      \* trainer_questions: id -> row, for the rows present
    nextQuestionId, \* next id the store gives an inserted question row
    categories      \* question_categories: id -> row, for the rows present

vars == <<codes, nextCodeId, trainers, nextTrainerId, admins, now, pc, call,
          budget, createdFrom, life, questions, nextQuestionId, categories>>

qstore == <<questions, nextQuestionId, categories>>

store == <<codes, nextCodeId, trainers, nextTrainerId, admins>>

CodeRow(code, expires_at, is_used, used_by) ==
    [code |-> code, created_by |-> AdminId, expires_at |-> expires_at,
     is_used |-> is_used, used_by |-> used_by]

TrainerRow(email, password) ==
    [email |-> email, password_hash |-> hash_password(password),
     name |-> RegisteredName, is_active |-> TRUE]

AdminRow(password) ==
    [email |-> AdminEmail, password_hash |-> hash_password(password),
     name |-> RegisteredName, is_active |-> TRUE]

\* the claims of a bearer token: sub ("" when the claim is missing), type, exp,
\* and whether its signature verifies under SECRET_KEY
Token(sub, type, exp, signed) == [sub |-> sub, type |-> type, exp |-> exp, signed |-> signed]

NoToken == Token("", "", 0, FALSE)

\* current_user as get_current_user returns it
User(id, email, role) == [id |-> id, email |-> email, role |-> role]

NoUser == User("", "", "")

\* the snapshot a select that found nothing leaves in the handler
NoSnap == [found |-> FALSE, row |-> CodeRow("", NoExpiry, FALSE, Null)]

Snap(row) == [found |-> TRUE, row |-> row]

IdleCall ==
    [op |-> "none", code |-> "", email |-> "", password |-> "",
     new_password |-> "", id |-> Null,
     exp |-> NoExpiry, snap |-> NoSnap, admin_found |-> FALSE, new_id |-> Null,
     tok |-> NoToken, user |-> NoUser, token |-> NoToken, at |-> 0,
     new_status |-> FALSE, category |-> Null, text |-> "", step |-> 0,
     rows |-> {}, failed |-> FALSE, resp |-> Pending]

NewCall(op, code, email, id, exp) ==
    [IdleCall EXCEPT !.op = op, !.code = code, !.email = email, !.id = id,
                     !.exp = exp]

(* ------------------------------ the store ----------------------------- *)
\* select("*").eq("code", c): the ids of the matching rows
CodesByCode(c) == {i \in DOMAIN codes : codes[i].code = c}

\* select("*").eq("email", e)
AdminsByEmail(e) == {a \in DOMAIN admins : admins[a].email = e}

TrainersByEmail(e) == {t \in DOMAIN trainers : trainers[t].email = e}

\* insert(row): the store assigns the next id
InsertRow(table, id, row) == [i \in DOMAIN table \cup {id} |->
                                 IF i = id THEN row ELSE table[i]]

\* a delete that loses its eq("id", id) filter
DeleteEveryRow(table, id) == [i \in {} |-> table[i]]

\* delete().eq("id", id)
DeleteRow(table, id) == [i \in DOMAIN table \ {id} |-> table[i]]

(* ------------------------------- Init --------------------------------- *)
\* The tables outlive the process: at start the store is empty, or holds one
\* code row that is active, deactivated, or redeemed by an earlier trainer
\* (marked as the usage update of main.py:340-343 marks it) with that trainer.
SeedStores ==
    {[codes |-> <<>>, trainers |-> <<>>]} \cup
    {[codes |-> <<CodeRow("WELCOME10", e, u, Null)>>, trainers |-> <<>>] :
        e \in ExpirySeeds, u \in BOOLEAN} \cup
    {[codes |-> <<CodeRow("WELCOME10", e, TRUE, 1)>>, trainers |-> <<OldTrainer>>] :
        e \in ExpirySeeds}

Start ==
    /\ \E s \in SeedStores : codes = s.codes /\ trainers = s.trainers
    /\ nextCodeId = Len(codes) + 1
    /\ nextTrainerId = Len(trainers) + 1
    /\ admins = [a \in {AdminId} |-> AdminRow(MockPassword)]
    /\ now = 1
    /\ pc = [p \in Procs |-> "idle"]
    /\ call = [p \in Procs |-> IdleCall]
    /\ createdFrom = [t \in DOMAIN trainers |-> ""]
    /\ life = [i \in CodeIds |-> "none"]
    /\ questions = <<>>
    /\ nextQuestionId = 1
    /\ categories = <<>>

\* concurrent handling is checked for runs of MaxRequests requests
Init == Start /\ budget = MaxRequests

\* sequential handling is checked for runs of any number of requests
SeqInit == Start /\ budget = NoLimit

(* ------------------------------ helpers ------------------------------- *)
\* slot p is free and takes the next request the run receives
Accept(p) ==
    /\ pc[p] = "idle"
    /\ budget # 0
    /\ budget' = IF budget = NoLimit THEN NoLimit ELSE budget - 1

\* the handler in slot p answers request c: the slot is free again and
\* keeps the answered request until it takes the next one
Respond(p, c, resp) ==
    /\ pc' = [pc EXCEPT ![p] = "idle"]
    /\ call' = [call EXCEPT ![p] = [c EXCEPT !.resp = resp]]

Finish(p, resp) == Respond(p, call[p], resp) /\ UNCHANGED budget

\* the handler in slot p goes on to its next store call
Goto(p, label, c) ==
    /\ pc' = [pc EXCEPT ![p] = label]
    /\ call' = [call EXCEPT ![p] = c]

\* datetime.fromisoformat(expires_at.replace('Z', '+00:00')): a timestamp
\* that carries an offset parses to an aware datetime, one without to a
\* naive datetime
ParsedAware(e) == e.tz

\* datetime.utcnow() > expires_at: utcnow() is naive, and Python raises
\* TypeError when a naive and an aware datetime are ordered
CompareRaises(e) == ParsedAware(e)

PastExpiry(t, e) == t > e.t

\* the checks of register between the code select and the email selects:
\* the response they raise, or Pending when they all pass
RegisterCodeChecks(snap, t) ==
    IF ~snap.found THEN InvalidCode
    ELSE IF snap.row.is_used THEN AlreadyUsed
    ELSE IF snap.row.used_by # Null THEN AlreadyUsed
    ELSE IF snap.row.expires_at.isnull THEN Pending
    ELSE IF CompareRaises(snap.row.expires_at) THEN RegistrationFailed
    ELSE IF PastExpiry(t, snap.row.expires_at) THEN Expired
    ELSE Pending

\* update_data of register as wired (main.py:345-348)
RegisterUsagePatch(row, new_id) == [row EXCEPT !.used_by = Null, !.is_used = FALSE]

\* update(patch).eq("code", c): every matching row is patched
UpdateCodesByCode(c, new_id) ==
    [i \in DOMAIN codes |->
        IF codes[i].code = c THEN RegisterUsagePatch(codes[i], new_id) ELSE codes[i]]

(* ------------------------------ register ------------------------------ *)
\* select the code row (data[0] of the matches, whose order the store
\* picks), then the used / used_by / expiry checks
RegSelectCode(p, email, password, code) ==
    /\ Accept(p)
    /\ \E snap \in (IF CodesByCode(code) = {} THEN {NoSnap}
                    ELSE {Snap(codes[i]) : i \in CodesByCode(code)}) :
         LET c == [NewCall("register", code, email, Null, NoExpiry) EXCEPT
                      !.password = password, !.snap = snap]
             r == RegisterCodeChecks(snap, now)
         IN  IF r = Pending
             THEN Goto(p, "reg_select_admin", c)
             ELSE Respond(p, c, r)
    /\ UNCHANGED <<qstore, store, now, createdFrom, life>>

RegSelectAdmin(p) ==
    /\ pc[p] = "reg_select_admin"
    /\ Goto(p, "reg_select_trainer",
            [call[p] EXCEPT !.admin_found = AdminsByEmail(call[p].email) # {}])
    /\ UNCHANGED <<qstore, store, now, budget, createdFrom, life>>

RegSelectTrainer(p) ==
    /\ pc[p] = "reg_select_trainer"
    /\ IF call[p].admin_found \/ TrainersByEmail(call[p].email) # {}
       THEN Finish(p, UserExists)
       ELSE Goto(p, "reg_insert", call[p]) /\ UNCHANGED budget
    /\ UNCHANGED <<qstore, store, now, createdFrom, life>>

RegInsert(p) ==
    /\ pc[p] = "reg_insert"
    /\ nextTrainerId <= MaxTrainers
    /\ trainers' = InsertRow(trainers, nextTrainerId,
                           TrainerRow(call[p].email, call[p].password))
    /\ nextTrainerId' = nextTrainerId + 1
    /\ createdFrom' = InsertRow(createdFrom, nextTrainerId, call[p].code)
    /\ Goto(p, "reg_update", [call[p] EXCEPT !.new_id = nextTrainerId])
    /\ UNCHANGED <<qstore, codes, nextCodeId, admins, now, budget, life>>

RegUpdate(p) ==
    /\ pc[p] = "reg_update"
    /\ codes' = UpdateCodesByCode(call[p].code, call[p].new_id)
    /\ life' = [i \in CodeIds |->
                  IF i \in CodesByCode(call[p].code) THEN "none" ELSE life[i]]
    /\ Finish(p, Ok)
    /\ UNCHANGED <<qstore, nextCodeId, trainers, nextTrainerId, admins, now, createdFrom>>

(* -------------------------------- clock ------------------------------- *)
Tick ==
    /\ now < MaxTime
    /\ now' = now + 1
    /\ UNCHANGED <<qstore, store, pc, call, budget, createdFrom, life>>

(* ----------------------- create_registration_code --------------------- *)
\* new_code_data (main.py:488-493); used_by is left to the column default
NewCodeRow(code, exp) == CodeRow(code, exp, FALSE, Null)

CreateSelect(p, code, exp) ==
    /\ Accept(p)
    /\ LET c == NewCall("create", code, "", Null, exp)
       IN  IF CodesByCode(code) # {}
           THEN Respond(p, c, CodeExists)
           ELSE Goto(p, "create_insert", c)
    /\ UNCHANGED <<qstore, store, now, createdFrom, life>>

CreateInsert(p) ==
    /\ pc[p] = "create_insert"
    /\ nextCodeId <= MaxCodes
    /\ codes' = InsertRow(codes, nextCodeId, NewCodeRow(call[p].code, call[p].exp))
    /\ nextCodeId' = nextCodeId + 1
    /\ life' = [life EXCEPT ![nextCodeId] = "none"]
    /\ Respond(p, [call[p] EXCEPT !.id = nextCodeId], Ok)
    /\ UNCHANGED <<qstore, trainers, nextTrainerId, admins, now, budget, createdFrom>>

(* ------------------ deactivate / activate / delete -------------------- *)
\* the select by id that opens the three handlers
SelectCodeById(id) == IF id \in DOMAIN codes THEN Snap(codes[id]) ELSE NoSnap

\* update(patch).eq("id", id): patches the row if it is (still) there
UpdateCodeById(id, patch(_)) ==
    [i \in DOMAIN codes |-> IF i = id THEN patch(codes[i]) ELSE codes[i]]

\* a deactivate that flips the flag instead of setting it
DeactivateToggles(row) == [row EXCEPT !.is_used = ~row.is_used]

DeactivatePatch(row) == [row EXCEPT !.is_used = TRUE]

ActivatePatch(row) == [row EXCEPT !.is_used = FALSE]

\* a code a register request would accept at time t
Redeemable(row, t) ==
    /\ ~row.is_used
    /\ row.used_by = Null
    /\ row.expires_at.isnull \/ ~PastExpiry(t, row.expires_at)

DeactSelect(p, id) ==
    /\ Accept(p)
    /\ LET c == [NewCall("deactivate", "", "", id, NoExpiry) EXCEPT
                    !.snap = SelectCodeById(id)]
       IN  IF ~c.snap.found
           THEN Respond(p, c, CodeNotFound)
           ELSE Goto(p, "deact_update", c)
    /\ UNCHANGED <<qstore, store, now, createdFrom, life>>

DeactUpdate(p) ==
    /\ pc[p] = "deact_update"
    /\ codes' = UpdateCodeById(call[p].id, DeactivatePatch)
    /\ life' = [life EXCEPT ![call[p].id] =
                  IF call[p].id \notin DOMAIN codes THEN "none"
                  ELSE IF Redeemable(codes[call[p].id], now) THEN "deactivated"
                  ELSE IF life[call[p].id] = "deactivated" THEN "deactivated"
                  ELSE "none"]
    /\ Finish(p, Ok)
    /\ UNCHANGED <<qstore, nextCodeId, trainers, nextTrainerId, admins, now, createdFrom>>

ActSelect(p, id) ==
    /\ Accept(p)
    /\ LET c == [NewCall("activate", "", "", id, NoExpiry) EXCEPT
                    !.snap = SelectCodeById(id)]
       IN  IF ~c.snap.found
           THEN Respond(p, c, CodeNotFound)
           ELSE Goto(p, "act_update", c)
    /\ UNCHANGED <<qstore, store, now, createdFrom, life>>

ActUpdate(p) ==
    /\ pc[p] = "act_update"
    /\ codes' = UpdateCodeById(call[p].id, ActivatePatch)
    /\ life' = [life EXCEPT ![call[p].id] =
                  IF call[p].id \in DOMAIN codes /\ life[call[p].id] = "deactivated"
                  THEN "reactivated" ELSE "none"]
    /\ Finish(p, Ok)
    /\ UNCHANGED <<qstore, nextCodeId, trainers, nextTrainerId, admins, now, createdFrom>>

\* delete_registration_code without its used check
DeleteNeverRefused(snap) == FALSE

\* the check of delete_registration_code on the row it has read
DeleteRefused(snap) == snap.row.is_used

DelSelect(p, id) ==
    /\ Accept(p)
    /\ LET c == [NewCall("delete", "", "", id, NoExpiry) EXCEPT
                    !.snap = SelectCodeById(id)]
       IN  IF ~c.snap.found
           THEN Respond(p, c, CodeNotFound)
           ELSE IF DeleteRefused(c.snap)
           THEN Respond(p, c, CannotDeleteUsed)
           ELSE Goto(p, "del_delete", c)
    /\ UNCHANGED <<qstore, store, now, createdFrom, life>>

DelDelete(p) ==
    /\ pc[p] = "del_delete"
    /\ codes' = DeleteRow(codes, call[p].id)
    /\ life' = [life EXCEPT ![call[p].id] = "none"]
    /\ Finish(p, Ok)
    /\ UNCHANGED <<qstore, nextCodeId, trainers, nextTrainerId, admins, now, createdFrom>>

(* --------------------------- specifications --------------------------- *)
\* the password plays no part in what becomes of a code: the requests of the
\* code-lifecycle specifications all carry the same one
Register(p) ==
    \/ \E e \in Emails, c \in CodeStrs : RegSelectCode(p, e, "pw123", c)
    \/ RegSelectAdmin(p)
    \/ RegSelectTrainer(p)
    \/ RegInsert(p)
    \/ RegUpdate(p)

CreateCode(p) ==
    \/ \E c \in CodeStrs, e \in ExpiryInputs : CreateSelect(p, c, e)
    \/ CreateInsert(p)

DeactivateCode(p) == (\E i \in CodeIds : DeactSelect(p, i)) \/ DeactUpdate(p)

ActivateCode(p) == (\E i \in CodeIds : ActSelect(p, i)) \/ ActUpdate(p)

DeleteCode(p) == (\E i \in CodeIds : DelSelect(p, i)) \/ DelDelete(p)

\* requests are handled concurrently: any slot may take its next step
Next ==
    \/ \E p \in Procs : Register(p)
    \/ \E p \in Procs : CreateCode(p)
    \/ \E p \in Procs : DeactivateCode(p)
    \/ \E p \in Procs : ActivateCode(p)
    \/ \E p \in Procs : DeleteCode(p)
    \/ Tick

Spec == Init /\ [][Next]_vars

\* one request at a time: slot 1 runs every request to its response
SeqNext ==
    \/ Register(1)
    \/ CreateCode(1)
    \/ DeactivateCode(1)
    \/ ActivateCode(1)
    \/ DeleteCode(1)
    \/ Tick

SpecSeq == SeqInit /\ [][SeqNext]_vars

\* one request at a time, and activate_registration_code is never called
SeqNoActivateNext ==
    \/ Register(1)
    \/ CreateCode(1)
    \/ DeactivateCode(1)
    \/ DeleteCode(1)
    \/ Tick

SpecSeqNoActivate == SeqInit /\ [][SeqNoActivateNext]_vars

(* ============================ authentication ========================== *)
ACCESS_TOKEN_EXPIRE_MINUTES == 180

InvalidToken == Resp(401, "Invalid token")
AdminInactive == Resp(401, "Admin not found or inactive")
TrainerInactive == Resp(401, "Trainer not found or inactive")
InvalidUserType == Resp(401, "Invalid user type")
AdminRequired == Resp(403, "Admin access required")
RoleRequired == Resp(403, "Trainer or admin access required")
InvalidCredentials == Resp(401, "Invalid credentials")
TrainerNotFound == Resp(404, "Trainer not found")

\* ids travel as strings (token claims, path parameters)
IdStr(i) == ToString(i)

BcryptTags == {"$2a$", "$2b$", "$2y$"}

\* a digest with another tag is refused; bcrypt.checkpw raises ValueError on
\* an unsound digest, which is caught; otherwise the password decides
verify_password(password, hashed) ==
    IF hashed.tag \notin BcryptTags THEN FALSE
    ELSE IF ~hashed.sound THEN FALSE
    ELSE hashed.pw = password

\* create_access_token(data) called at time t (minutes)
create_access_token(sub, type, t) ==
    Token(sub, type, t + ACCESS_TOKEN_EXPIRE_MINUTES, TRUE)

\* a decode that does not look at exp
ExpiryNotVerified(tok, t) == {FALSE}

\* whether jwt.decode at time t raises ExpiredSignatureError: past exp it
\* does, before exp it does not, and at exp itself it depends on the release
\* of the library (exp < now in some, exp <= now in others)
ExpiredSignature(tok, t) ==
    IF t > tok.exp THEN {TRUE}
    ELSE IF t = tok.exp THEN {TRUE, FALSE}
    ELSE {FALSE}

\* what a dependency hands on: the response it raises, or the user
Denied(resp) == [resp |-> resp, user |-> NoUser]

Granted(user) == [resp |-> Pending, user |-> user]

\* select("*").eq("id", user_id)
TrainersById(id) == {i \in DOMAIN trainers : IdStr(i) = id}

AdminsById(id) == {a \in DOMAIN admins : a = id}

\* a lookup that does not read is_active
ResolveInactiveToo(tok) ==
    IF tok.type = "admin" /\ AdminsById(tok.sub) # {}
    THEN Granted(User(tok.sub, admins[tok.sub].email, "admin"))
    ELSE IF tok.type = "trainer" /\ TrainersById(tok.sub) # {}
    THEN LET i == CHOOSE i \in TrainersById(tok.sub) : TRUE
         IN  Granted(User(tok.sub, trainers[i].email, "trainer"))
    ELSE Denied(InvalidUserType)

\* a lookup that answers a missing row and an inactive row differently
ResolveTellsApart(tok) ==
    IF tok.type = "admin"
    THEN IF AdminsById(tok.sub) = {} THEN Denied(Resp(404, "Admin not found"))
         ELSE IF ~admins[tok.sub].is_active THEN Denied(AdminInactive)
         ELSE Granted(User(tok.sub, admins[tok.sub].email, "admin"))
    ELSE IF tok.type = "trainer"
    THEN IF TrainersById(tok.sub) = {} THEN Denied(TrainerNotFound)
         ELSE LET i == CHOOSE i \in TrainersById(tok.sub) : TRUE
              IN  IF ~trainers[i].is_active THEN Denied(TrainerInactive)
                  ELSE Granted(User(tok.sub, trainers[i].email, "trainer"))
    ELSE Denied(InvalidUserType)

\* the lookup of get_current_user in the table the type claim names
ResolveUser(tok) ==
    IF tok.type = "admin"
    THEN IF AdminsById(tok.sub) = {} THEN Denied(AdminInactive)
         ELSE IF ~admins[tok.sub].is_active THEN Denied(AdminInactive)
         ELSE Granted(User(tok.sub, admins[tok.sub].email, "admin"))
    ELSE IF tok.type = "trainer"
    THEN IF TrainersById(tok.sub) = {} THEN Denied(TrainerInactive)
         ELSE LET i == CHOOSE i \in TrainersById(tok.sub) : TRUE
              IN  IF ~trainers[i].is_active THEN Denied(TrainerInactive)
                  ELSE Granted(User(tok.sub, trainers[i].email, "trainer"))
    ELSE Denied(InvalidUserType)

\* a get_current_user that reads the claims without verifying the signature
DecodeUnverified(tok, t) ==
    {IF expired \/ tok.sub = ""
     THEN Denied(InvalidToken)
     ELSE ResolveUser(tok) : expired \in ExpiredSignature(tok, t)}

\* get_current_user for token tok at time t: the results it may give
get_current_user(tok, t) ==
    {IF ~tok.signed \/ expired \/ tok.sub = ""
     THEN Denied(InvalidToken)
     ELSE ResolveUser(tok) : expired \in ExpiredSignature(tok, t)}

\* a require_admin that lets every resolved user pass
RequireAnyRole(r) == r

require_admin(r) ==
    IF r.resp # Pending THEN r
    ELSE IF r.user.role # "admin" THEN Denied(AdminRequired)
    ELSE r

require_trainer_or_admin(r) ==
    IF r.resp # Pending THEN r
    ELSE IF r.user.role \notin {"admin", "trainer"} THEN Denied(RoleRequired)
    ELSE r

\* the dependencies of a route have run with one of the results deps: the
\* request is answered, or its handler starts at label
Enter(p, c, deps, label) ==
    \E r \in deps :
        IF r.resp # Pending
        THEN Respond(p, c, r.resp)
        ELSE Goto(p, label, [c EXCEPT !.user = r.user])

(* ------------------------------- tokens ------------------------------- *)
\* tokens login has issued to an identity: one before the run started, one
\* at the end of the short clock
IssueTimes == {0, MaxTime}

IssuedTokens ==
    {create_access_token(AdminId, "admin", t) : t \in IssueTimes} \cup
    {create_access_token(IdStr(i), "trainer", t) : i \in TrainerIds, t \in IssueTimes}

LongLived == ACCESS_TOKEN_EXPIRE_MINUTES + MaxTime

\* other bearer strings a request may carry: claims login never issues (no
\* sub, another type, an id of the other table) under a signature that
\* verifies, and claims whose signature does not verify
OddTokens ==
    {Token("", "trainer", LongLived, TRUE),
     Token(IdStr(1), "client", LongLived, TRUE),
     Token(IdStr(1), "admin", LongLived, TRUE),
     Token(AdminId, "trainer", LongLived, TRUE),
     Token(AdminId, "admin", LongLived, FALSE),
     Token(IdStr(1), "trainer", LongLived, FALSE)}

TokenInputs == IssuedTokens \cup OddTokens

\* the bearer strings tried at the gate of an admin-only route: the token of
\* the admin, the token of each trainer, and one whose signature fails
GateTokens ==
    {create_access_token(AdminId, "admin", MaxTime)} \cup
    {create_access_token(IdStr(i), "trainer", MaxTime) : i \in TrainerIds} \cup
    {Token(AdminId, "admin", LongLived, FALSE)}

\* the tokens login gave the admin and trainer 1 at the end of the short clock
AdminToken == create_access_token(AdminId, "admin", MaxTime)

TrainerToken == create_access_token(IdStr(1), "trainer", MaxTime)

(* ------------------------------ /auth/me ------------------------------ *)
\* get_current_user_info: the dependency, then the user it resolved
Me(p, tok) ==
    /\ Accept(p)
    /\ LET c == [NewCall("me", "", "", Null, NoExpiry) EXCEPT !.tok = tok, !.at = now]
       IN  \E r \in get_current_user(tok, now) :
               Respond(p, [c EXCEPT !.user = r.user],
                       IF r.resp = Pending THEN Ok ELSE r.resp)
    /\ UNCHANGED <<qstore, store, now, createdFrom, life>>

(* -------------------------------- login ------------------------------- *)
\* the development credential, then the admins select and its password check
LoginSelectAdmin(p, email, password) ==
    /\ Accept(p)
    /\ LET c == [NewCall("login", "", email, Null, NoExpiry) EXCEPT
                    !.password = password, !.at = now]
       IN  IF email = AdminEmail /\ password = MockPassword
           THEN Respond(p, [c EXCEPT !.token = create_access_token(AdminId, "admin", now)], Ok)
           ELSE IF AdminsByEmail(email) = {}
           THEN Goto(p, "login_select_trainer", c)
           ELSE \E a \in AdminsByEmail(email) :
                   IF verify_password(password, admins[a].password_hash)
                   THEN Respond(p, [c EXCEPT !.token = create_access_token(a, "admin", now)], Ok)
                   ELSE Goto(p, "login_select_trainer", c)
    /\ UNCHANGED <<qstore, store, now, createdFrom, life>>

\* the trainers select and its password check (data[0] of the matches)
LoginSelectTrainer(p) ==
    /\ pc[p] = "login_select_trainer"
    /\ IF TrainersByEmail(call[p].email) = {}
       THEN Finish(p, InvalidCredentials)
       ELSE \E i \in TrainersByEmail(call[p].email) :
               IF verify_password(call[p].password, trainers[i].password_hash)
               THEN Respond(p, [call[p] EXCEPT
                                   !.token = create_access_token(IdStr(i), "trainer", now)], Ok)
                    /\ UNCHANGED budget
               ELSE Finish(p, InvalidCredentials)
    /\ UNCHANGED <<qstore, store, now, createdFrom, life>>

(* ------------------------- admin-only routes -------------------------- *)
AdminOps == {"create", "list", "activate", "deactivate", "delete", "toggle"}

\* where the handler of an admin-only route makes its first store call
FirstCall(op) ==
    CASE op = "create" -> "create_select"
      [] op = "list" -> "list_select"
      [] op = "activate" -> "act_select"
      [] op = "deactivate" -> "deact_select"
      [] op = "delete" -> "del_select"
      [] op = "toggle" -> "toggle_select"
      [] op = "cat_delete" -> "cat_delete_select"

\* Depends(require_admin) of an admin-only route
AdminGate(p, op, tok, code, exp, id) ==
    /\ Accept(p)
    /\ Enter(p, [NewCall(op, code, "", id, exp) EXCEPT !.tok = tok],
             {require_admin(r) : r \in get_current_user(tok, now)}, FirstCall(op))
    /\ UNCHANGED <<qstore, store, now, createdFrom, life>>

\* a request of the admin to an admin-only route
AsAdmin(p, op, code, exp, id) == AdminGate(p, op, AdminToken, code, exp, id)

\* the handlers behind the gate: their first select
GatedCreateSelect(p) ==
    /\ pc[p] = "create_select"
    /\ IF CodesByCode(call[p].code) # {}
       THEN Finish(p, CodeExists)
       ELSE Goto(p, "create_insert", call[p]) /\ UNCHANGED budget
    /\ UNCHANGED <<qstore, store, now, createdFrom, life>>

\* get_registration_codes: select("*")
ListSelect(p) ==
    /\ pc[p] = "list_select"
    /\ Finish(p, Ok)
    /\ UNCHANGED <<qstore, store, now, createdFrom, life>>

GatedDeactSelect(p) ==
    /\ pc[p] = "deact_select"
    /\ LET c == [call[p] EXCEPT !.snap = SelectCodeById(call[p].id)]
       IN  IF ~c.snap.found
           THEN Respond(p, c, CodeNotFound)
           ELSE Goto(p, "deact_update", c)
    /\ UNCHANGED <<qstore, store, now, budget, createdFrom, life>>

GatedActSelect(p) ==
    /\ pc[p] = "act_select"
    /\ LET c == [call[p] EXCEPT !.snap = SelectCodeById(call[p].id)]
       IN  IF ~c.snap.found
           THEN Respond(p, c, CodeNotFound)
           ELSE Goto(p, "act_update", c)
    /\ UNCHANGED <<qstore, store, now, budget, createdFrom, life>>

GatedDelSelect(p) ==
    /\ pc[p] = "del_select"
    /\ LET c == [call[p] EXCEPT !.snap = SelectCodeById(call[p].id)]
       IN  IF ~c.snap.found
           THEN Respond(p, c, CodeNotFound)
           ELSE IF DeleteRefused(c.snap)
           THEN Respond(p, c, CannotDeleteUsed)
           ELSE Goto(p, "del_delete", c)
    /\ UNCHANGED <<qstore, store, now, budget, createdFrom, life>>

(* ------------------------ toggle_trainer_status ----------------------- *)
ToggleSelect(p) ==
    /\ pc[p] = "toggle_select"
    /\ IF call[p].id \notin DOMAIN trainers
       THEN Finish(p, TrainerNotFound)
       ELSE Goto(p, "toggle_update",
                 [call[p] EXCEPT !.new_status = ~trainers[call[p].id].is_active])
            /\ UNCHANGED budget
    /\ UNCHANGED <<qstore, store, now, createdFrom, life>>

\* update({"is_active": new_status}).eq("id", trainer_id)
ToggleUpdate(p) ==
    /\ pc[p] = "toggle_update"
    /\ trainers' = [i \in DOMAIN trainers |->
                      IF i = call[p].id
                      THEN [trainers[i] EXCEPT !.is_active = call[p].new_status]
                      ELSE trainers[i]]
    /\ Finish(p, Ok)
    /\ UNCHANGED <<qstore, codes, nextCodeId, nextTrainerId, admins, now, createdFrom, life>>

(* ------------------------------- clock -------------------------------- *)
\* a long pause between two requests: a minute less than the lifetime of a
\* token, the lifetime, or a minute more
Pauses == {ACCESS_TOKEN_EXPIRE_MINUTES - 1, ACCESS_TOKEN_EXPIRE_MINUTES,
           ACCESS_TOKEN_EXPIRE_MINUTES + 1}

Elapse(d) ==
    /\ now + d <= MaxTime + ACCESS_TOKEN_EXPIRE_MINUTES + 1
    /\ now' = now + d
    /\ UNCHANGED <<qstore, store, pc, call, budget, createdFrom, life>>

(* ------------------- specifications: authentication ------------------- *)
\* password_hash values a trainer row may hold at start: a digest made by
\* hash_password, a value that is no bcrypt digest (a password stored as it
\* is), and a bcrypt tag followed by a damaged digest
StoredDigests ==
    {hash_password("pw123"), Digest("plain", FALSE, "pw123"), Digest("$2b$", FALSE, "pw123")}

\* At start: a code that registrations can use (register leaves a code
\* unused, main.py:345-348), no trainer or one registered earlier, and the
\* provisioned admin, whose password is the development one or another.
AuthInit ==
    /\ codes = <<CodeRow("WELCOME10", NoExpiry, FALSE, Null)>>
    /\ nextCodeId = 2
    /\ \/ trainers = <<>>
       \/ \E h \in StoredDigests : trainers = <<[OldTrainer EXCEPT !.password_hash = h]>>
    /\ nextTrainerId = Len(trainers) + 1
    /\ \E w \in Passwords : admins = [a \in {AdminId} |-> AdminRow(w)]
    /\ now = 1
    /\ pc = [p \in Procs |-> "idle"]
    /\ call = [p \in Procs |-> IdleCall]
    /\ budget = NoLimit
    /\ createdFrom = [t \in DOMAIN trainers |-> ""]
    /\ life = [i \in CodeIds |-> "none"]
    /\ questions = <<>>
    /\ nextQuestionId = 1
    /\ categories = <<>>

RegisterAny(p) ==
    \/ \E e \in Emails, w \in Passwords, c \in CodeStrs : RegSelectCode(p, e, w, c)
    \/ RegSelectAdmin(p)
    \/ RegSelectTrainer(p)
    \/ RegInsert(p)
    \/ RegUpdate(p)

Login(p) ==
    \/ \E e \in Emails, w \in Passwords : LoginSelectAdmin(p, e, w)
    \/ LoginSelectTrainer(p)

\* a request carries one of the token inputs or the token the last login
\* in its slot returned
Presented(p) == TokenInputs \cup {call[p].token}

CurrentUserInfo(p) == \E tok \in Presented(p) : Me(p, tok)

ToggleTrainerStatus(p) ==
    \/ \E tok \in GateTokens, t \in TrainerIds :
          AdminGate(p, "toggle", tok, "", NoExpiry, t)
    \/ ToggleSelect(p)
    \/ ToggleUpdate(p)

\* one request at a time: registration, login, identity and the active flag
AuthNext ==
    \/ RegisterAny(1)
    \/ Login(1)
    \/ CurrentUserInfo(1)
    \/ ToggleTrainerStatus(1)
    \/ Tick
    \/ \E d \in Pauses : Elapse(d)

SpecAuth == AuthInit /\ [][AuthNext]_vars

\* the admin-only routes, each behind its gate
GatedCreateCode(p) ==
    \/ \E tok \in GateTokens, c \in CodeStrs, e \in ExpiryInputs :
          AdminGate(p, "create", tok, c, e, Null)
    \/ GatedCreateSelect(p)
    \/ CreateInsert(p)

GatedListCodes(p) ==
    \/ \E tok \in GateTokens : AdminGate(p, "list", tok, "", NoExpiry, Null)
    \/ ListSelect(p)

GatedDeactivateCode(p) ==
    \/ \E tok \in GateTokens, i \in CodeIds :
          AdminGate(p, "deactivate", tok, "", NoExpiry, i)
    \/ GatedDeactSelect(p)
    \/ DeactUpdate(p)

GatedActivateCode(p) ==
    \/ \E tok \in GateTokens, i \in CodeIds :
          AdminGate(p, "activate", tok, "", NoExpiry, i)
    \/ GatedActSelect(p)
    \/ ActUpdate(p)

GatedDeleteCode(p) ==
    \/ \E tok \in GateTokens, i \in CodeIds :
          AdminGate(p, "delete", tok, "", NoExpiry, i)
    \/ GatedDelSelect(p)
    \/ DelDelete(p)

\* one request at a time, in runs of MaxRequests requests: the six
\* admin-only routes
AdminNext ==
    \/ GatedCreateCode(1)
    \/ GatedListCodes(1)
    \/ GatedDeactivateCode(1)
    \/ GatedActivateCode(1)
    \/ GatedDeleteCode(1)
    \/ ToggleTrainerStatus(1)

SpecAdmin == Init /\ [][AdminNext]_vars

(* ========================== trainer questions ========================= *)
QuestionNotFound == Resp(404, "Question not found")
CreateQuestionFailed == Resp(500, "Failed to create question")
InvalidCategory == Resp(400, "Invalid category ID")

\* a row of trainer_questions (updated_at, which nothing reads, is left out)
QuestionRow(trainer_id, category_id, content, step) ==
    [trainer_id |-> trainer_id, category_id |-> category_id,
     content |-> content, step |-> step]

\* request bodies: the text and the step of QuestionCreate, and of
\* QuestionUpdate, where "" and 0 stand for a field that is not given
NoText == ""
NoStep == 0
Texts == {"b"}
Steps == {2}

\* select("*").eq("trainer_id", user.id)
QuestionsOf(user) == {q \in DOMAIN questions : questions[q].trainer_id = user.id}

\* a lookup by id alone
AnyQuestion(id, user) == {q \in DOMAIN questions : q = id}

\* select("*").eq("id", question_id).eq("trainer_id", current_user["id"])
OwnQuestion(id, user) ==
    {q \in DOMAIN questions : q = id /\ questions[q].trainer_id = user.id}

\* update_data of update_trainer_question
QuestionPatch(row, text, step) ==
    [row EXCEPT !.content = IF text = NoText THEN @ ELSE text,
                !.step = IF step = NoStep THEN @ ELSE step]

\* Depends(require_trainer_or_admin) of a question route
QuestionGate(p, op, label, tok, id, category, text, step) ==
    /\ Accept(p)
    /\ Enter(p, [NewCall(op, "", "", id, NoExpiry) EXCEPT
                    !.tok = tok, !.category = category, !.text = text, !.step = step],
             {require_trainer_or_admin(r) : r \in get_current_user(tok, now)}, label)
    /\ UNCHANGED <<qstore, store, now, createdFrom, life>>

\* get_trainer_questions: the caller's rows, then their categories
QListSelect(p) ==
    /\ pc[p] = "q_list_select"
    /\ LET c == [call[p] EXCEPT !.rows = QuestionsOf(call[p].user)]
       IN  IF c.rows = {}
           THEN Respond(p, c, Ok)
           ELSE Goto(p, "q_list_categories", c)
    /\ UNCHANGED <<qstore, store, now, budget, createdFrom, life>>

QListCategories(p) ==
    /\ pc[p] = "q_list_categories"
    /\ Finish(p, Ok)
    /\ UNCHANGED <<qstore, store, now, createdFrom, life>>

\* create_trainer_question: the category select; the 400 it raises is
\* caught by the handler's own except Exception and answered as 500
QCreateSelect(p) ==
    /\ pc[p] = "q_create_select"
    /\ IF call[p].category \notin DOMAIN categories
       THEN Finish(p, CreateQuestionFailed)
       ELSE Goto(p, "q_create_insert", call[p]) /\ UNCHANGED budget
    /\ UNCHANGED <<qstore, store, now, createdFrom, life>>

QCreateInsert(p) ==
    /\ pc[p] = "q_create_insert"
    /\ nextQuestionId <= MaxQuestions
    /\ questions' = InsertRow(questions, nextQuestionId,
                              QuestionRow(call[p].user.id, call[p].category,
                                          call[p].text, call[p].step))
    /\ nextQuestionId' = nextQuestionId + 1
    /\ Respond(p, [call[p] EXCEPT !.new_id = nextQuestionId], Ok)
    /\ UNCHANGED <<categories, store, now, budget, createdFrom, life>>

\* update_trainer_question
QUpdateSelect(p) ==
    /\ pc[p] = "q_update_select"
    /\ IF OwnQuestion(call[p].id, call[p].user) = {}
       THEN Finish(p, QuestionNotFound)
       ELSE Goto(p, "q_update_update", call[p]) /\ UNCHANGED budget
    /\ UNCHANGED <<qstore, store, now, createdFrom, life>>

\* update(update_data).eq("id", question_id); response.data[0] raises when
\* the row is gone, which the framework answers as 500
QUpdateUpdate(p) ==
    /\ pc[p] = "q_update_update"
    /\ questions' = [q \in DOMAIN questions |->
                        IF q = call[p].id
                        THEN QuestionPatch(questions[q], call[p].text, call[p].step)
                        ELSE questions[q]]
    /\ Finish(p, IF call[p].id \in DOMAIN questions THEN Ok
                 ELSE Resp(500, "Internal Server Error"))
    /\ UNCHANGED <<nextQuestionId, categories, store, now, createdFrom, life>>

\* delete_trainer_question
QDeleteSelect(p) ==
    /\ pc[p] = "q_delete_select"
    /\ IF OwnQuestion(call[p].id, call[p].user) = {}
       THEN Finish(p, QuestionNotFound)
       ELSE Goto(p, "q_delete_delete", call[p]) /\ UNCHANGED budget
    /\ UNCHANGED <<qstore, store, now, createdFrom, life>>

QDeleteDelete(p) ==
    /\ pc[p] = "q_delete_delete"
    /\ questions' = DeleteRow(questions, call[p].id)
    /\ Finish(p, Ok)
    /\ UNCHANGED <<nextQuestionId, categories, store, now, createdFrom, life>>

(* -------------------- specification: trainer questions ---------------- *)
\* At start: the admin, two trainers, one category, and no question or one
\* question of either trainer.
QuestionSeeds ==
    {<<>>} \cup {<<QuestionRow(IdStr(i), 1, "a", 1)>> : i \in 1..2}

QInit ==
    /\ codes = <<>>
    /\ nextCodeId = 1
    /\ trainers = <<TrainerRow("ann@x.com", "pw123"), TrainerRow("bob@x.com", "pw123")>>
    /\ nextTrainerId = 3
    /\ admins = [a \in {AdminId} |-> AdminRow(MockPassword)]
    /\ now = 1
    /\ pc = [p \in Procs |-> "idle"]
    /\ call = [p \in Procs |-> IdleCall]
    /\ budget = NoLimit
    /\ createdFrom = [t \in DOMAIN trainers |-> ""]
    /\ life = [i \in CodeIds |-> "none"]
    /\ questions \in QuestionSeeds
    /\ nextQuestionId = Len(questions) + 1
    /\ categories = <<[name |-> "general"]>>

ListQuestions(p) ==
    \/ \E tok \in GateTokens :
          QuestionGate(p, "q_list", "q_list_select", tok, Null, Null, NoText, NoStep)
    \/ QListSelect(p)
    \/ QListCategories(p)

CreateQuestion(p) ==
    \/ \E tok \in GateTokens, k \in CategoryIds, x \in Texts, n \in Steps :
          QuestionGate(p, "q_create", "q_create_select", tok, Null, k, x, n)
    \/ QCreateSelect(p)
    \/ QCreateInsert(p)

UpdateQuestion(p) ==
    \/ \E tok \in GateTokens, q \in QuestionIds,
          x \in Texts \cup {NoText}, n \in Steps \cup {NoStep} :
          QuestionGate(p, "q_update", "q_update_select", tok, q, Null, x, n)
    \/ QUpdateSelect(p)
    \/ QUpdateUpdate(p)

DeleteQuestion(p) ==
    \/ \E tok \in GateTokens, q \in QuestionIds :
          QuestionGate(p, "q_delete", "q_delete_select", tok, q, Null, NoText, NoStep)
    \/ QDeleteSelect(p)
    \/ QDeleteDelete(p)

\* one request at a time: the question routes
QuestionNext ==
    \/ ListQuestions(1)
    \/ CreateQuestion(1)
    \/ UpdateQuestion(1)
    \/ DeleteQuestion(1)

SpecQuestions == QInit /\ [][QuestionNext]_vars

(* ============================ change_password ========================= *)
WrongPassword == Resp(400, "Current password is incorrect")
AdminNotFound == Resp(404, "Admin not found")
InvalidUserRole == Resp(400, "Invalid user role")

\* Depends(get_current_user) of change_password
ChangePasswordGate(p, tok, current, new) ==
    /\ Accept(p)
    /\ Enter(p, [NewCall("change_password", "", "", Null, NoExpiry) EXCEPT
                    !.tok = tok, !.password = current, !.new_password = new],
             get_current_user(tok, now), "cp_select")
    /\ UNCHANGED <<qstore, store, now, createdFrom, life>>

\* select("*").eq("id", current_user["id"]) in the table of the role: the
\* password_hash of the rows found
StoredPasswords(user) ==
    IF user.role = "admin"
    THEN {admins[a].password_hash : a \in AdminsById(user.id)}
    ELSE {trainers[i].password_hash : i \in TrainersById(user.id)}

\* the select of the caller's row and the check of the current password
CpSelect(p) ==
    /\ pc[p] = "cp_select"
    /\ IF call[p].user.role \notin {"admin", "trainer"}
       THEN Finish(p, InvalidUserRole)
       ELSE IF StoredPasswords(call[p].user) = {}
       THEN Finish(p, IF call[p].user.role = "admin" THEN AdminNotFound
                      ELSE TrainerNotFound)
       ELSE \E stored \in StoredPasswords(call[p].user) :
               IF ~verify_password(call[p].password, stored)
               THEN Finish(p, WrongPassword)
               ELSE Goto(p, "cp_update", call[p]) /\ UNCHANGED budget
    /\ UNCHANGED <<qstore, store, now, createdFrom, life>>

\* update({"password_hash": new_password_hash}).eq("id", current_user["id"])
CpUpdate(p) ==
    /\ pc[p] = "cp_update"
    /\ LET h == hash_password(call[p].new_password)
       IN  IF call[p].user.role = "admin"
           THEN /\ admins' = [a \in DOMAIN admins |->
                                 IF a \in AdminsById(call[p].user.id)
                                 THEN [admins[a] EXCEPT !.password_hash = h]
                                 ELSE admins[a]]
                /\ UNCHANGED trainers
           ELSE /\ trainers' = [i \in DOMAIN trainers |->
                                   IF i \in TrainersById(call[p].user.id)
                                   THEN [trainers[i] EXCEPT !.password_hash = h]
                                   ELSE trainers[i]]
                /\ UNCHANGED admins
    /\ Finish(p, Ok)
    /\ UNCHANGED <<qstore, codes, nextCodeId, nextTrainerId, now, createdFrom, life>>

(* ------------------- specification: change_password ------------------- *)
\* At start: the admin, whose password is the development one or another,
\* and two trainers, the first with any of the stored digests.
PwInit ==
    /\ codes = <<>>
    /\ nextCodeId = 1
    /\ \E h \in StoredDigests :
          trainers = <<[OldTrainer EXCEPT !.password_hash = h],
                       TrainerRow("bob@x.com", "pw123")>>
    /\ nextTrainerId = 3
    /\ \E w \in Passwords : admins = [a \in {AdminId} |-> AdminRow(w)]
    /\ now = 1
    /\ pc = [p \in Procs |-> "idle"]
    /\ call = [p \in Procs |-> IdleCall]
    /\ budget = NoLimit
    /\ createdFrom = [t \in DOMAIN trainers |-> ""]
    /\ life = [i \in CodeIds |-> "none"]
    /\ questions = <<>>
    /\ nextQuestionId = 1
    /\ categories = <<>>

ChangePassword(p) ==
    \/ \E tok \in GateTokens, current \in Passwords, new \in Passwords :
          ChangePasswordGate(p, tok, current, new)
    \/ CpSelect(p)
    \/ CpUpdate(p)

\* one request at a time: change_password and login
PasswordNext ==
    \/ ChangePassword(1)
    \/ Login(1)

SpecPassword == PwInit /\ [][PasswordNext]_vars

(* ----------------- specification: concurrent toggles ------------------ *)
\* At start: the admin and one trainer, active or not.
ToggleInit ==
    /\ codes = <<>>
    /\ nextCodeId = 1
    /\ \E b \in BOOLEAN : trainers = <<[OldTrainer EXCEPT !.is_active = b]>>
    /\ nextTrainerId = 2
    /\ admins = [a \in {AdminId} |-> AdminRow(MockPassword)]
    /\ now = 1
    /\ pc = [p \in Procs |-> "idle"]
    /\ call = [p \in Procs |-> IdleCall]
    /\ budget = MaxRequests
    /\ createdFrom = [t \in DOMAIN trainers |-> ""]
    /\ life = [i \in CodeIds |-> "none"]
    /\ questions = <<>>
    /\ nextQuestionId = 1
    /\ categories = <<>>

ToggleAsAdmin(p) ==
    \/ \E t \in TrainerIds : AsAdmin(p, "toggle", "", NoExpiry, t)
    \/ ToggleSelect(p)
    \/ ToggleUpdate(p)

\* requests are handled concurrently: the admin toggles trainers while the
\* trainer asks for its identity
ToggleNext ==
    \/ \E p \in Procs : ToggleAsAdmin(p)
    \/ \E p \in Procs : Me(p, TrainerToken)

SpecToggle == ToggleInit /\ [][ToggleNext]_vars

(* ============================== change_name =========================== *)
ChangeNameFailed == Resp(500, "Failed to change name")

\* Depends(get_current_user) of change_name
ChangeNameGate(p, tok, name) ==
    /\ Accept(p)
    /\ Enter(p, [NewCall("change_name", "", "", Null, NoExpiry) EXCEPT
                    !.tok = tok, !.text = name],
             get_current_user(tok, now), "cn_update")
    /\ UNCHANGED <<qstore, store, now, createdFrom, life>>

\* update({"name": name}).eq("id", current_user["id"]) in the table of the
\* role; the 400 raised for another role is caught by except Exception
CnUpdate(p) ==
    /\ pc[p] = "cn_update"
    /\ IF call[p].user.role = "admin"
       THEN /\ admins' = [a \in DOMAIN admins |->
                             IF a \in AdminsById(call[p].user.id)
                             THEN [admins[a] EXCEPT !.name = call[p].text]
                             ELSE admins[a]]
            /\ UNCHANGED trainers
            /\ Finish(p, Ok)
       ELSE IF call[p].user.role = "trainer"
       THEN /\ trainers' = [i \in DOMAIN trainers |->
                               IF i \in TrainersById(call[p].user.id)
                               THEN [trainers[i] EXCEPT !.name = call[p].text]
                               ELSE trainers[i]]
            /\ UNCHANGED admins
            /\ Finish(p, Ok)
       ELSE /\ UNCHANGED <<admins, trainers>>
            /\ Finish(p, ChangeNameFailed)
    /\ UNCHANGED <<qstore, codes, nextCodeId, nextTrainerId, now, createdFrom, life>>

(* ====================== delete_question_category ====================== *)
CategoryNotFound == Resp(404, "Category not found")
CategoryInUse == Resp(400, "Cannot delete category that is being used by questions")

\* select("id").eq("category_id", category_id) on trainer_questions
QuestionsUsing(category) ==
    {q \in DOMAIN questions : questions[q].category_id = category}

\* the select of the category by id
CatDeleteSelect(p) ==
    /\ pc[p] = "cat_delete_select"
    /\ IF call[p].id \notin DOMAIN categories
       THEN Finish(p, CategoryNotFound)
       ELSE Goto(p, "cat_delete_check", call[p]) /\ UNCHANGED budget
    /\ UNCHANGED <<qstore, store, now, createdFrom, life>>

\* the select of the questions that use the category
CatDeleteCheck(p) ==
    /\ pc[p] = "cat_delete_check"
    /\ IF QuestionsUsing(call[p].id) # {}
       THEN Finish(p, CategoryInUse)
       ELSE Goto(p, "cat_delete_delete", call[p]) /\ UNCHANGED budget
    /\ UNCHANGED <<qstore, store, now, createdFrom, life>>

\* delete().eq("id", category_id)
CatDeleteDelete(p) ==
    /\ pc[p] = "cat_delete_delete"
    /\ categories' = DeleteRow(categories, call[p].id)
    /\ Finish(p, Ok)
    /\ UNCHANGED <<questions, nextQuestionId, store, now, createdFrom, life>>

(* ------------------ specification: categories in use ------------------ *)
\* At start: the admin, one trainer, and two categories of which a question
\* of the trainer uses the first, or no question at all.
CatInit ==
    /\ codes = <<>>
    /\ nextCodeId = 1
    /\ trainers = <<OldTrainer>>
    /\ nextTrainerId = 2
    /\ admins = [a \in {AdminId} |-> AdminRow(MockPassword)]
    /\ now = 1
    /\ pc = [p \in Procs |-> "idle"]
    /\ call = [p \in Procs |-> IdleCall]
    /\ budget = MaxRequests
    /\ createdFrom = [t \in DOMAIN trainers |-> ""]
    /\ life = [i \in CodeIds |-> "none"]
    /\ questions \in {<<>>, <<QuestionRow(IdStr(1), 1, "a", 1)>>}
    /\ nextQuestionId = Len(questions) + 1
    /\ categories = <<[name |-> "general"], [name |-> "extra"]>>

DeleteCategory(p) ==
    \/ \E i \in CategoryIds : AsAdmin(p, "cat_delete", "", NoExpiry, i)
    \/ CatDeleteSelect(p)
    \/ CatDeleteCheck(p)
    \/ CatDeleteDelete(p)

CreateOwnQuestion(p) ==
    \/ \E k \in CategoryIds, x \in Texts, n \in Steps :
          QuestionGate(p, "q_create", "q_create_select", TrainerToken, Null, k, x, n)
    \/ QCreateSelect(p)
    \/ QCreateInsert(p)

DeleteOwnQuestion(p) ==
    \/ \E q \in QuestionIds :
          QuestionGate(p, "q_delete", "q_delete_select", TrainerToken, q, Null, NoText, NoStep)
    \/ QDeleteSelect(p)
    \/ QDeleteDelete(p)

\* requests are handled concurrently: the admin deletes categories while
\* the trainer creates and deletes questions
CategoryNext ==
    \/ \E p \in Procs : DeleteCategory(p)
    \/ \E p \in Procs : CreateOwnQuestion(p)
    \/ \E p \in Procs : DeleteOwnQuestion(p)

SpecCategories == CatInit /\ [][CategoryNext]_vars

\* the same requests, one at a time
CategorySeqNext ==
    \/ DeleteCategory(1)
    \/ CreateOwnQuestion(1)
    \/ DeleteOwnQuestion(1)

SpecCategoriesSeq == CatInit /\ [][CategorySeqNext]_vars

(* -------------------- specification: the writing routes --------------- *)
\* HTTPBearer() of a request without an Authorization header: the framework
\* answers before get_current_user runs, 403 in the releases of the time and
\* 401 in later ones
NotAuthenticated == {Resp(403, "Not authenticated"), Resp(401, "Not authenticated")}

\* the routes with a dependency on get_current_user that write to a table
ProtectedOps ==
    AdminOps \cup {"change_name", "change_password", "cat_delete",
                   "q_create", "q_update", "q_delete"}

NoHeader(p, op) ==
    /\ Accept(p)
    /\ \E r \in NotAuthenticated : Respond(p, NewCall(op, "", "", Null, NoExpiry), r)
    /\ UNCHANGED <<qstore, store, now, createdFrom, life>>

\* the bearer strings tried: the token of the admin, the token of a
\* trainer, and one whose signature fails
CallerTokens == {AdminToken, TrainerToken, Token(AdminId, "admin", LongLived, FALSE)}

\* At start: a code that registrations can use, the admin, one trainer with
\* one question, and two categories.
WriteInit ==
    /\ codes = <<CodeRow("WELCOME10", NoExpiry, FALSE, Null)>>
    /\ nextCodeId = 2
    /\ trainers = <<OldTrainer>>
    /\ nextTrainerId = 2
    /\ admins = [a \in {AdminId} |-> AdminRow(MockPassword)]
    /\ now = 1
    /\ pc = [p \in Procs |-> "idle"]
    /\ call = [p \in Procs |-> IdleCall]
    /\ budget = MaxRequests
    /\ createdFrom = [t \in DOMAIN trainers |-> ""]
    /\ life = [i \in CodeIds |-> "none"]
    /\ questions = <<QuestionRow(IdStr(1), 1, "a", 1)>>
    /\ nextQuestionId = 2
    /\ categories = <<[name |-> "general"], [name |-> "extra"]>>

\* one request at a time, in runs of MaxRequests requests: register and the
\* routes that write behind a dependency, each tried with every caller token
\* and without a header
WriteNext ==
    \/ Register(1)
    \/ \E tok \in CallerTokens : ChangeNameGate(1, tok, NewName)
    \/ CnUpdate(1)
    \/ \E tok \in CallerTokens : ChangePasswordGate(1, tok, "pw123", MockPassword)
    \/ CpSelect(1)
    \/ CpUpdate(1)
    \/ \E tok \in CallerTokens, c \in CodeStrs : AdminGate(1, "create", tok, c, NoExpiry, Null)
    \/ GatedCreateSelect(1)
    \/ CreateInsert(1)
    \/ \E tok \in CallerTokens : AdminGate(1, "list", tok, "", NoExpiry, Null)
    \/ ListSelect(1)
    \/ \E tok \in CallerTokens, i \in CodeIds : AdminGate(1, "deactivate", tok, "", NoExpiry, i)
    \/ GatedDeactSelect(1)
    \/ DeactUpdate(1)
    \/ \E tok \in CallerTokens, i \in CodeIds : AdminGate(1, "activate", tok, "", NoExpiry, i)
    \/ GatedActSelect(1)
    \/ ActUpdate(1)
    \/ \E tok \in CallerTokens, i \in CodeIds : AdminGate(1, "delete", tok, "", NoExpiry, i)
    \/ GatedDelSelect(1)
    \/ DelDelete(1)
    \/ \E tok \in CallerTokens, t \in TrainerIds : AdminGate(1, "toggle", tok, "", NoExpiry, t)
    \/ ToggleSelect(1)
    \/ ToggleUpdate(1)
    \/ \E tok \in CallerTokens, i \in CategoryIds :
          AdminGate(1, "cat_delete", tok, "", NoExpiry, i)
    \/ CatDeleteSelect(1)
    \/ CatDeleteCheck(1)
    \/ CatDeleteDelete(1)
    \/ \E tok \in CallerTokens, k \in CategoryIds, x \in Texts, n \in Steps :
          QuestionGate(1, "q_create", "q_create_select", tok, Null, k, x, n)
    \/ QCreateSelect(1)
    \/ QCreateInsert(1)
    \/ \E tok \in CallerTokens, q \in QuestionIds, x \in Texts :
          QuestionGate(1, "q_update", "q_update_select", tok, q, Null, x, NoStep)
    \/ QUpdateSelect(1)
    \/ QUpdateUpdate(1)
    \/ \E tok \in CallerTokens, q \in QuestionIds :
          QuestionGate(1, "q_delete", "q_delete_select", tok, q, Null, NoText, NoStep)
    \/ QDeleteSelect(1)
    \/ QDeleteDelete(1)
    \/ \E op \in ProtectedOps : NoHeader(1, op)

SpecWrites == WriteInit /\ [][WriteNext]_vars

(* ============================ store failures ========================== *)
\* .execute() of a store call raises (the store is unreachable or answers
\* with an error); a call that raised has changed no table
UserNotFound == Resp(401, "User not found")
DatabaseError == Resp(500, "Database error")
LoginFailed == Resp(500, "Login failed")
CreateTrainerFailed == Resp(500, "Failed to create trainer")
CreateCodeFailed == Resp(500, "Failed to create registration code")
DeactivateFailed == Resp(500, "Failed to deactivate registration code")
ActivateFailed == Resp(500, "Failed to activate registration code")
DeleteFailed == Resp(500, "Failed to delete registration code")
ToggleFailed == Resp(500, "Failed to update trainer status")
InternalServerError == Resp(500, "Internal Server Error")

\* a register that treats a failed usage update like its other failures
UsageMarkFatal == RegistrationFailed

\* register when the update of registration_codes raises: the exception is
\* caught and printed, and the new trainer is returned
UsageMarkFailed == Ok

\* what a handler answers when its store call at label raises
StoreFailure(label) ==
    CASE label \in {"reg_select_admin", "reg_select_trainer"} -> RegistrationFailed
      [] label = "reg_insert" -> CreateTrainerFailed
      [] label = "reg_update" -> UsageMarkFailed
      [] label = "login_select_trainer" -> LoginFailed
      [] label \in {"create_select", "create_insert"} -> CreateCodeFailed
      [] label = "list_select" -> InternalServerError
      [] label \in {"deact_select", "deact_update"} -> DeactivateFailed
      [] label \in {"act_select", "act_update"} -> ActivateFailed
      [] label \in {"del_select", "del_delete"} -> DeleteFailed
      [] label \in {"toggle_select", "toggle_update"} -> ToggleFailed

FaultLabels ==
    {"reg_select_admin", "reg_select_trainer", "reg_insert", "reg_update",
     "login_select_trainer", "create_select", "create_insert", "list_select",
     "deact_select", "deact_update", "act_select", "act_update", "del_select",
     "del_delete", "toggle_select", "toggle_update"}

\* the store call the handler in slot p is about to make raises
CallFails(p) ==
    /\ pc[p] \in FaultLabels
    /\ Respond(p, [call[p] EXCEPT !.failed = TRUE], StoreFailure(pc[p]))
    /\ UNCHANGED <<qstore, store, now, budget, createdFrom, life>>

\* the first select of register raises (main.py:284-286)
RegSelectCodeFails(p, email, password, code) ==
    /\ Accept(p)
    /\ Respond(p, [NewCall("register", code, email, Null, NoExpiry) EXCEPT
                      !.password = password, !.failed = TRUE], DatabaseError)
    /\ UNCHANGED <<qstore, store, now, createdFrom, life>>

\* the admins select of login raises (the development credential is
\* answered before any store call)
LoginSelectAdminFails(p, email, password) ==
    /\ Accept(p)
    /\ ~(email = AdminEmail /\ password = MockPassword)
    /\ Respond(p, [NewCall("login", "", email, Null, NoExpiry) EXCEPT
                      !.password = password, !.at = now, !.failed = TRUE], LoginFailed)
    /\ UNCHANGED <<qstore, store, now, createdFrom, life>>

\* the token passes jwt.decode and names a table, whose select is to follow
ReachesStore(tok, expired) ==
    tok.signed /\ ~expired /\ tok.sub # "" /\ tok.type \in {"admin", "trainer"}

\* get_current_user when its select raises: except Exception answers 401
get_current_user_failing(tok, t) ==
    {IF ~tok.signed \/ expired \/ tok.sub = "" THEN Denied(InvalidToken)
     ELSE IF ReachesStore(tok, expired) THEN Denied(UserNotFound)
     ELSE Denied(InvalidUserType) : expired \in ExpiredSignature(tok, t)}

\* a protected request whose token passes jwt.decode while the select of
\* get_current_user raises: /auth/me or an admin-only route
ResolveFails(p, op, tok, code, exp, id) ==
    /\ Accept(p)
    /\ \E r \in get_current_user_failing(tok, now) :
          /\ r.resp = UserNotFound
          /\ Respond(p, [NewCall(op, code, "", id, exp) EXCEPT
                            !.tok = tok, !.at = now, !.failed = TRUE], r.resp)
    /\ UNCHANGED <<qstore, store, now, createdFrom, life>>

(* -------------------- specification: store failures ------------------- *)
\* one request at a time, in runs of MaxRequests requests: register, login,
\* /auth/me and the admin-only routes, where every store call either
\* succeeds or raises
FaultNext ==
    \/ Register(1)
    \/ \E e \in Emails, c \in CodeStrs : RegSelectCodeFails(1, e, "pw123", c)
    \/ Login(1)
    \/ \E e \in Emails : LoginSelectAdminFails(1, e, "pw123")
    \/ \E tok \in GateTokens : Me(1, tok)
    \/ \E tok \in GateTokens : ResolveFails(1, "me", tok, "", NoExpiry, Null)
    \/ \E c \in CodeStrs, e \in ExpiryInputs : AsAdmin(1, "create", c, e, Null)
    \/ GatedCreateSelect(1)
    \/ CreateInsert(1)
    \/ AsAdmin(1, "list", "", NoExpiry, Null)
    \/ ListSelect(1)
    \/ \E i \in CodeIds : AsAdmin(1, "deactivate", "", NoExpiry, i)
    \/ GatedDeactSelect(1)
    \/ DeactUpdate(1)
    \/ \E i \in CodeIds : AsAdmin(1, "activate", "", NoExpiry, i)
    \/ GatedActSelect(1)
    \/ ActUpdate(1)
    \/ \E i \in CodeIds : AsAdmin(1, "delete", "", NoExpiry, i)
    \/ GatedDelSelect(1)
    \/ DelDelete(1)
    \/ \E t \in TrainerIds : AsAdmin(1, "toggle", "", NoExpiry, t)
    \/ ToggleSelect(1)
    \/ ToggleUpdate(1)
    \/ \E op \in AdminOps : ResolveFails(1, op, AdminToken, "", NoExpiry, 1)
    \/ CallFails(1)

SpecFaults == Init /\ [][FaultNext]_vars

(* ============================== properties ============================ *)
\* slot p takes a request for handler op in this step
Begins(p, op) ==
    /\ pc[p] = "idle"
    /\ call'[p].op = op
    /\ pc'[p] # "idle" \/ call'[p] # call[p]

\* slot p makes the last store call of its request in this step and answers
Answers(p, label) == pc[p] = label /\ pc'[p] = "idle"

\* the trainers registered with code string c
RegisteredWith(c) == {t \in DOMAIN createdFrom : createdFrom[t] = c}

(* ---------------------------------- C1 -------------------------------- *)
\* C1: whenever register returns a new trainer identity, every row of that
\* code has is_used = TRUE and used_by = the id of the trainer just created.
C1_RegisterMarksCodeUsed ==
    [][\A p \in Procs :
          Answers(p, "reg_update") /\ call'[p].resp = Ok =>
             \A i \in CodesByCode(call[p].code) :
                 /\ i \in DOMAIN codes'
                 /\ codes'[i].is_used
                 /\ codes'[i].used_by = call[p].new_id]_vars

(* ---------------------------------- C2 -------------------------------- *)
\* C2: with one request at a time and no activate call, once a trainer was
\* registered with code c every later register with c answers AlreadyUsed
\* and creates no identity.
C2_SecondRedemptionFails ==
    [][\A p \in Procs :
          Begins(p, "register") /\ RegisteredWith(call'[p].code) # {} =>
             /\ pc'[p] = "idle"
             /\ call'[p].resp = AlreadyUsed
             /\ trainers' = trainers]_vars

(* ---------------------------------- C3 -------------------------------- *)
\* C3: two register requests in flight with the same code and different
\* emails never both create a trainer identity.
C3_OneIdentityPerRace ==
    \A p, q \in Procs :
        (/\ p # q
         /\ pc[p] # "idle" /\ pc[q] # "idle"
         /\ call[p].op = "register" /\ call[q].op = "register"
         /\ call[p].code = call[q].code
         /\ call[p].email # call[q].email)
        => ~(call[p].new_id # Null /\ call[q].new_id # Null)

(* ---------------------------------- C4 -------------------------------- *)
\* no admin and no trainer has email e
FreshEmail(e) == AdminsByEmail(e) = {} /\ TrainersByEmail(e) = {}

\* not past its expiry at time t (a code without expiry never is)
Unexpired(row, t) == row.expires_at.isnull \/ ~PastExpiry(t, row.expires_at)

\* C4: with one request at a time, for a code that was active and unexpired:
\* after deactivate succeeded on it, register with it answers AlreadyUsed and
\* creates no identity; after a following activate succeeded, register with it
\* (still unexpired) and a fresh email succeeds.
C4_DeactivateThenReactivate ==
    [][\A p \in Procs :
          /\ Begins(p, "register") =>
                \A i \in CodesByCode(call'[p].code) :
                    /\ life[i] = "deactivated" =>
                          /\ pc'[p] = "idle"
                          /\ call'[p].resp = AlreadyUsed
                          /\ trainers' = trainers
                    /\ (/\ life[i] = "reactivated"
                        /\ Unexpired(codes[i], now)
                        /\ FreshEmail(call'[p].email)) =>
                          pc'[p] = "reg_select_admin"
          /\ (pc[p] = "reg_select_trainer" /\ FreshEmail(call[p].email)) =>
                pc'[p] \in {"reg_select_trainer", "reg_insert"}
          /\ pc[p] = "reg_update" =>
                pc'[p] = "reg_update" \/ (pc'[p] = "idle" /\ call'[p].resp = Ok)]_vars

\* C4 for the codes whose stored expiry carries no UTC offset (for the others
\* the expiry comparison of register raises, see CompareRaises)
C4_HoldsWithoutOffset ==
    [][\A p \in Procs :
          /\ Begins(p, "register") =>
                \A i \in CodesByCode(call'[p].code) :
                    /\ life[i] = "deactivated" =>
                          /\ pc'[p] = "idle"
                          /\ call'[p].resp = AlreadyUsed
                          /\ trainers' = trainers
                    /\ (/\ life[i] = "reactivated"
                        /\ Unexpired(codes[i], now)
                        /\ ~codes[i].expires_at.tz
                        /\ FreshEmail(call'[p].email)) =>
                          pc'[p] = "reg_select_admin"
          /\ (pc[p] = "reg_select_trainer" /\ FreshEmail(call[p].email)) =>
                pc'[p] \in {"reg_select_trainer", "reg_insert"}
          /\ pc[p] = "reg_update" =>
                pc'[p] = "reg_update" \/ (pc'[p] = "idle" /\ call'[p].resp = Ok)]_vars

(* ---------------------------------- C5 -------------------------------- *)
\* C5: after activate succeeds on an existing code, in whatever state it was,
\* the row has is_used = FALSE and used_by = null, so that the used and the
\* redeemer check of register both pass for it.
C5_ActivateClearsUsage ==
    [][\A p \in Procs :
          (Answers(p, "act_update") /\ call[p].id \in DOMAIN codes) =>
             /\ call'[p].resp = Ok
             /\ call[p].id \in DOMAIN codes'
             /\ ~codes'[call[p].id].is_used
             /\ codes'[call[p].id].used_by = Null
             /\ RegisterCodeChecks(Snap(codes'[call[p].id]), now)
                    \notin {AlreadyUsed}]_vars

(* ---------------------------------- C6 -------------------------------- *)
\* the handlers that look a code up by its id
ById == {"deactivate", "activate", "delete"}

\* the rows of registration_codes other than row i stay as they are
OthersKept(i) ==
    /\ DOMAIN codes' \ {i} = DOMAIN codes \ {i}
    /\ \A j \in DOMAIN codes \ {i} : codes'[j] = codes[j]

\* C6: with one request at a time, delete on a code whose is_used is TRUE
\* answers 400 "Cannot delete ..." and leaves the table as it is; delete on a
\* code whose is_used is FALSE removes the row and answers Ok; from then on
\* the id stays absent, every lookup of it by id answers 404 "not found", and
\* register with a code string no row has answers 400 "Invalid ... code".
C6_DeleteUsedRefusedActiveRemoved ==
    [][\A p \in Procs :
          /\ (Begins(p, "delete") /\ call'[p].id \in DOMAIN codes) =>
                /\ codes' = codes
                /\ IF codes[call'[p].id].is_used
                   THEN pc'[p] = "idle" /\ call'[p].resp = CannotDeleteUsed
                   ELSE pc'[p] = "del_delete"
          /\ Answers(p, "del_delete") =>
                /\ call'[p].resp = Ok
                /\ call[p].id \notin DOMAIN codes'
                /\ OthersKept(call[p].id)
          /\ \A op \in ById :
                (Begins(p, op) /\ call'[p].id \notin DOMAIN codes) =>
                    /\ pc'[p] = "idle"
                    /\ call'[p].resp = CodeNotFound
                    /\ codes' = codes
          /\ (Begins(p, "register") /\ CodesByCode(call'[p].code) = {}) =>
                /\ pc'[p] = "idle"
                /\ call'[p].resp = InvalidCode
                /\ UNCHANGED store
          /\ \A i \in CodeIds :
                (i < nextCodeId /\ i \notin DOMAIN codes) => i \notin DOMAIN codes']_vars

\* reached: an id that was deleted has been looked up and answered not found
C6_DeletedCodeLookedUp ==
    /\ pc[1] = "idle"
    /\ call[1].op \in ById
    /\ call[1].id < nextCodeId
    /\ call[1].id \notin DOMAIN codes
    /\ call[1].resp = CodeNotFound

(* ---------------------------------- C7 -------------------------------- *)
\* C7: in every interleaving, a code row is never removed at a moment when
\* its stored is_used is TRUE.
C7_UsedRowNeverRemoved ==
    [][\A i \in DOMAIN codes : i \notin DOMAIN codes' => ~codes[i].is_used]_vars

(* ---------------------------------- C8 -------------------------------- *)
\* C8 as stated: a code row is removed only while it is active, is_used FALSE
\* and not past its expiry; delete never succeeds on an expired code.
C8_RemovedOnlyWhileActive ==
    [][\A i \in DOMAIN codes :
          i \notin DOMAIN codes' => (~codes[i].is_used /\ Unexpired(codes[i], now))]_vars

\* C8 as amended: with one request at a time a code row is removed only by a
\* delete request and only while its is_used is FALSE; its expiry is not
\* consulted: delete goes on to remove every row whose is_used is FALSE,
\* past its expiry or not.
C8_RemovedOnlyWhileUnused ==
    [][/\ \A i \in DOMAIN codes :
             i \notin DOMAIN codes' =>
                /\ ~codes[i].is_used
                /\ \E p \in Procs : Answers(p, "del_delete") /\ call[p].id = i
       /\ \A p \in Procs :
             (/\ Begins(p, "delete")
              /\ call'[p].id \in DOMAIN codes
              /\ ~codes[call'[p].id].is_used) =>
                 /\ pc'[p] = "del_delete"
                 /\ call'[p].snap.row.expires_at = codes[call'[p].id].expires_at]_vars

\* reached: delete answered Ok for a row that was past its expiry all along
C8_ExpiredCodeDeleted ==
    /\ pc[1] = "idle"
    /\ call[1].op = "delete"
    /\ call[1].resp = Ok
    /\ ~call[1].snap.row.is_used
    /\ ~call[1].snap.row.expires_at.isnull
    /\ \A t \in 1..MaxTime : PastExpiry(t, call[1].snap.row.expires_at)
    /\ call[1].id \notin DOMAIN codes

(* ---------------------------------- C9 -------------------------------- *)
\* C9: with one request at a time, deactivate on an existing code is never
\* refused, answers Ok and leaves the row with is_used = TRUE and every other
\* column and row as it was; applied to a row whose is_used is already TRUE
\* (a second application) it leaves the table identical.
C9_DeactivateIdempotent ==
    [][\A p \in Procs :
          /\ (Begins(p, "deactivate") /\ call'[p].id \in DOMAIN codes) =>
                pc'[p] = "deact_update" /\ codes' = codes
          /\ Answers(p, "deact_update") =>
                /\ call'[p].resp = Ok
                /\ call[p].id \in DOMAIN codes
                /\ call[p].id \in DOMAIN codes'
                /\ codes'[call[p].id] = [codes[call[p].id] EXCEPT !.is_used = TRUE]
                /\ OthersKept(call[p].id)
                /\ codes[call[p].id].is_used => codes' = codes]_vars

\* reached: deactivate answered Ok on a row that was already is_used = TRUE
C9_DeactivatedTwice ==
    /\ pc[1] = "idle"
    /\ call[1].op = "deactivate"
    /\ call[1].resp = Ok
    /\ call[1].snap.found /\ call[1].snap.row.is_used
    /\ life[call[1].id] = "deactivated"

(* ---------------------------------- C10 ------------------------------- *)
\* C10: in every reachable state no two rows of registration_codes have the
\* same code string, also when create requests interleave.
C10_CodeStringsUnique ==
    \A i, j \in DOMAIN codes : i # j => codes[i].code # codes[j].code

\* C10, the part that holds: with one request at a time, create with a code
\* string some row has answers 400 "already exists" and inserts nothing, and
\* the code strings stay unique.
C10_SequentialCreateConflict ==
    [][\A p \in Procs :
          (Begins(p, "create") /\ CodesByCode(call'[p].code) # {}) =>
              /\ pc'[p] = "idle"
              /\ call'[p].resp = CodeExists
              /\ UNCHANGED store]_vars

(* ---------------------------------- C11 ------------------------------- *)
\* C11: with one request at a time, register answers 400 "Invalid ... code"
\* when no row has the code string, 400 "... already been used" when the row
\* has is_used TRUE or a used_by, 400 "... has expired" when the row passes
\* those checks and the clock is past its stored expiry, and 400 "User already
\* exists" when an admin or a trainer has the email; in each of the four no
\* trainer row is inserted and registration_codes stays as it is.
C11_RegisterFailures ==
    [][\A p \in Procs :
          /\ Begins(p, "register") =>
                /\ CodesByCode(call'[p].code) = {} =>
                      /\ pc'[p] = "idle"
                      /\ call'[p].resp = InvalidCode
                      /\ UNCHANGED store
                /\ \A i \in CodesByCode(call'[p].code) :
                      /\ (codes[i].is_used \/ codes[i].used_by # Null) =>
                            /\ pc'[p] = "idle"
                            /\ call'[p].resp = AlreadyUsed
                            /\ UNCHANGED store
                      /\ (/\ ~codes[i].is_used
                          /\ codes[i].used_by = Null
                          /\ ~Unexpired(codes[i], now)) =>
                            /\ pc'[p] = "idle"
                            /\ call'[p].resp = Expired
                            /\ UNCHANGED store
          /\ pc[p] = "reg_select_admin" => UNCHANGED store
          /\ (/\ pc[p] = "reg_select_trainer"
              /\ pc'[p] # pc[p]
              /\ ~FreshEmail(call[p].email)) =>
                /\ pc'[p] = "idle"
                /\ call'[p].resp = UserExists
                /\ UNCHANGED store]_vars

\* C11 for the codes whose stored expiry carries no UTC offset
C11_HoldsWithoutOffset ==
    [][\A p \in Procs :
          /\ Begins(p, "register") =>
                /\ CodesByCode(call'[p].code) = {} =>
                      /\ pc'[p] = "idle"
                      /\ call'[p].resp = InvalidCode
                      /\ UNCHANGED store
                /\ \A i \in CodesByCode(call'[p].code) :
                      /\ (codes[i].is_used \/ codes[i].used_by # Null) =>
                            /\ pc'[p] = "idle"
                            /\ call'[p].resp = AlreadyUsed
                            /\ UNCHANGED store
                      /\ (/\ ~codes[i].is_used
                          /\ codes[i].used_by = Null
                          /\ ~codes[i].expires_at.tz
                          /\ ~Unexpired(codes[i], now)) =>
                            /\ pc'[p] = "idle"
                            /\ call'[p].resp = Expired
                            /\ UNCHANGED store
          /\ pc[p] = "reg_select_admin" => UNCHANGED store
          /\ (/\ pc[p] = "reg_select_trainer"
              /\ pc'[p] # pc[p]
              /\ ~FreshEmail(call[p].email)) =>
                /\ pc'[p] = "idle"
                /\ call'[p].resp = UserExists
                /\ UNCHANGED store]_vars

(* ---------------------------------- C12 ------------------------------- *)
\* C12: in every reachable state no two rows of admins and trainers together
\* have the same email, also when register requests interleave.
C12_EmailUniqueAcrossTables ==
    \A e \in Emails : Cardinality(AdminsByEmail(e)) + Cardinality(TrainersByEmail(e)) <= 1

\* C12, the part that holds: with one request at a time the emails stay unique
C12_SequentialEmailUnique ==
    [][C12_EmailUniqueAcrossTables => C12_EmailUniqueAcrossTables']_vars

(* ---------------------------------- C13 ------------------------------- *)
\* a row with is_active TRUE in the table the type claim of tok names has
\* the id the sub claim gives
ActiveRowOf(tok) ==
    \/ /\ tok.type = "admin"
       /\ \E a \in DOMAIN admins : a = tok.sub /\ admins[a].is_active
    \/ /\ tok.type = "trainer"
       /\ \E i \in DOMAIN trainers : IdStr(i) = tok.sub /\ trainers[i].is_active

\* the signature verifies, time t is not past exp, there is a sub claim, and
\* it names an active row of the claimed role
Entitled(tok, t) ==
    /\ tok.signed
    /\ t <= tok.exp
    /\ tok.sub # ""
    /\ ActiveRowOf(tok)

\* C13: /auth/me answers with an identity only for a token that is entitled,
\* and the identity has the id and the role the token claims; every other
\* token is answered 401 without an identity; an entitled token that is
\* before its exp is answered with the identity.  The gate of an admin-only
\* route lets the handler start only for an entitled token, and answers 401
\* or 403 otherwise.
C13_IdentityOnlyForEntitledToken ==
    [][\A p \in Procs :
          /\ Begins(p, "me") =>
                /\ pc'[p] = "idle"
                /\ IF call'[p].resp = Ok
                   THEN /\ Entitled(call'[p].tok, now)
                        /\ call'[p].user.id = call'[p].tok.sub
                        /\ call'[p].user.role = call'[p].tok.type
                   ELSE /\ call'[p].resp.status = 401
                        /\ call'[p].user = NoUser
                /\ (Entitled(call'[p].tok, now) /\ now # call'[p].tok.exp) =>
                        call'[p].resp = Ok
          /\ \A op \in AdminOps :
                Begins(p, op) =>
                   IF pc'[p] # "idle"
                   THEN /\ Entitled(call'[p].tok, now)
                        /\ call'[p].user.id = call'[p].tok.sub
                        /\ call'[p].user.role = call'[p].tok.type
                   ELSE /\ call'[p].resp.status \in {401, 403}
                        /\ call'[p].resp.status = 403 => Entitled(call'[p].tok, now)]_vars

\* reached: /auth/me answered a trainer's token with that trainer
C13_TrainerResolved ==
    /\ pc[1] = "idle"
    /\ call[1].op = "me"
    /\ call[1].resp = Ok
    /\ call[1].tok.type = "trainer"
    /\ call[1].user.role = "trainer"
    /\ call[1].user.id = call[1].tok.sub

(* ---------------------------------- C14 ------------------------------- *)
\* the trainer rows a token names by its sub claim
NamedTrainers(tok) == {i \in DOMAIN trainers : tok.type = "trainer" /\ IdStr(i) = tok.sub}

\* C14: toggle_trainer_status leaves the row with the flag negated; while a
\* trainer's is_active is FALSE every protected request that carries a token
\* of that trainer, expired or not, is answered 401; once the flag is TRUE
\* again /auth/me answers a token of the trainer that is before its exp with
\* the identity.
C14_DeactivatedTrainerUnauthorized ==
    [][\A p \in Procs :
          /\ Answers(p, "toggle_update") =>
                \A i \in DOMAIN trainers :
                    trainers'[i].is_active =
                        IF i = call[p].id THEN ~trainers[i].is_active
                        ELSE trainers[i].is_active
          /\ \A op \in {"me"} \cup AdminOps :
                Begins(p, op) =>
                    \A i \in NamedTrainers(call'[p].tok) :
                        ~trainers[i].is_active =>
                            /\ pc'[p] = "idle"
                            /\ call'[p].resp.status = 401
                            /\ call'[p].user = NoUser
          /\ Begins(p, "me") =>
                \A i \in NamedTrainers(call'[p].tok) :
                    (/\ trainers[i].is_active
                     /\ call'[p].tok.signed
                     /\ now < call'[p].tok.exp) => call'[p].resp = Ok]_vars

\* reached: a token of a deactivated trainer, still before its exp, was
\* answered 401
C14_UnexpiredTokenRefused ==
    /\ pc[1] = "idle"
    /\ call[1].op = "me"
    /\ call[1].tok.signed
    /\ call[1].at < call[1].tok.exp
    /\ call[1].resp = TrainerInactive
    /\ \E i \in NamedTrainers(call[1].tok) : ~trainers[i].is_active

(* ---------------------------------- C15 ------------------------------- *)
\* the trainer rows with email e whose stored digest is the one register
\* stores for password w
RegisteredPairs(e, w) ==
    {i \in TrainersByEmail(e) : trainers[i].password_hash = hash_password(w)}

\* slot p holds the answer of a login that returned a trainer's token, and
\* presents that token to /auth/me in this step, before its exp
MeAfterLogin(p) ==
    /\ Begins(p, "me")
    /\ call[p].op = "login"
    /\ call[p].resp = Ok
    /\ call[p].token.type = "trainer"
    /\ call'[p].tok = call[p].token
    /\ now < call[p].token.exp

\* login answers a pair that some trainer row was registered with by a
\* token of the trainer type
LoginOfRegisteredPair(p) ==
    (/\ Answers(p, "login_select_trainer")
     /\ RegisteredPairs(call[p].email, call[p].password) # {}) =>
        /\ call'[p].resp = Ok
        /\ call'[p].token.signed
        /\ call'[p].token.type = "trainer"
        /\ \E i \in RegisteredPairs(call[p].email, call[p].password) :
               call'[p].token.sub = IdStr(i)

\* C15 as stated: with one request at a time, login with a pair registered
\* as a trainer returns a token, and /auth/me with that token (before its
\* exp) returns the identity with the email of the pair and the role
\* trainer.
C15_LoginThenIdentity ==
    [][\A p \in Procs :
          /\ LoginOfRegisteredPair(p)
          /\ MeAfterLogin(p) =>
                /\ call'[p].resp = Ok
                /\ call'[p].user.email = call[p].email
                /\ call'[p].user.role = "trainer"]_vars

\* C15 as amended: the same for the trainers whose is_active is TRUE when
\* /auth/me is called; login itself does not read the flag.
C15_LoginThenIdentityWhileActive ==
    [][\A p \in Procs :
          /\ LoginOfRegisteredPair(p)
          /\ MeAfterLogin(p) =>
                /\ \A i \in NamedTrainers(call[p].token) :
                      trainers[i].is_active =>
                         /\ call'[p].resp = Ok
                         /\ call'[p].user.email = call[p].email
                         /\ call'[p].user.role = "trainer"
                /\ call'[p].resp # Ok => call'[p].resp = TrainerInactive]_vars

\* reached: a trainer registered in this run has logged in and /auth/me has
\* answered the token of that login with the trainer
C15_RegisteredLoggedInResolved ==
    /\ pc[1] = "idle"
    /\ call[1].op = "me"
    /\ call[1].resp = Ok
    /\ call[1].user.role = "trainer"
    /\ call[1].tok \notin TokenInputs
    /\ \E i \in DOMAIN createdFrom :
          /\ createdFrom[i] # ""
          /\ IdStr(i) = call[1].user.id
          /\ trainers[i].email = call[1].user.email

(* ---------------------------------- C16 ------------------------------- *)
\* C16: the token login returns at time T has exp = T + 180; a token whose
\* signature verifies and that has a sub claim passes verification at every
\* time before its exp (T + 179) and fails it with 401 "Invalid token" at
\* every time after its exp (T + 181), however often it was presented; no
\* answer of /auth/me carries a token.
C16_TokenLifetime ==
    [][\A p \in Procs :
          /\ (/\ call'[p].op = "login"
              /\ call'[p] # call[p]
              /\ pc'[p] = "idle"
              /\ call'[p].resp = Ok) =>
                 call'[p].token.exp = now + 180
          /\ (Begins(p, "me") /\ call'[p].tok.signed /\ call'[p].tok.sub # "") =>
                 /\ now <= call'[p].tok.exp - 1 => call'[p].resp # InvalidToken
                 /\ now >= call'[p].tok.exp + 1 => call'[p].resp = InvalidToken
                 /\ call'[p].token = NoToken]_vars

\* reached: a token that login issued in this run at time T was refused at
\* time T + 181
C16_RefusedAfterLifetime ==
    /\ pc[1] = "idle"
    /\ call[1].op = "me"
    /\ call[1].tok.signed
    /\ call[1].tok \notin TokenInputs
    /\ call[1].at = (call[1].tok.exp - 180) + 181
    /\ call[1].resp = InvalidToken

(* ---------------------------------- C17 ------------------------------- *)
\* password w verifies against stored digest h
Verifies(w, h) == h.tag \in BcryptTags /\ h.sound /\ h.pw = w

\* the stored digests of the identities with email e
DigestsOf(e) ==
    {admins[a].password_hash : a \in AdminsByEmail(e)} \cup
    {trainers[i].password_hash : i \in TrainersByEmail(e)}

\* C17: with one request at a time, login with a password that verifies
\* against no stored digest of the email is answered 401 "Invalid
\* credentials": the same answer when no identity has the email, when the
\* digest is sound and when it is malformed.
C17_WrongPasswordUnauthorized ==
    [][\A p \in Procs :
          (/\ call'[p].op = "login"
           /\ call'[p] # call[p]
           /\ pc'[p] = "idle"
           /\ \A h \in DigestsOf(call'[p].email) : ~Verifies(call'[p].password, h)) =>
              /\ call'[p].resp = InvalidCredentials
              /\ call'[p].token = NoToken]_vars

\* C17 for every pair other than the development credential of login
C17_HoldsApartFromMock ==
    [][\A p \in Procs :
          (/\ call'[p].op = "login"
           /\ call'[p] # call[p]
           /\ pc'[p] = "idle"
           /\ ~(call'[p].email = AdminEmail /\ call'[p].password = MockPassword)
           /\ \A h \in DigestsOf(call'[p].email) : ~Verifies(call'[p].password, h)) =>
              /\ call'[p].resp = InvalidCredentials
              /\ call'[p].token = NoToken]_vars

(* ---------------------------------- C18 ------------------------------- *)
\* C18: a request to an admin-only route whose token resolves to a trainer
\* is answered 403 "Admin access required" and no table changes; the handler
\* of such a route starts only for a token that resolves to an admin, and
\* the tables change only in the steps of a handler that started so.
C18_AdminOnlyRoutes ==
    [][/\ \A p \in Procs : \A op \in AdminOps :
             Begins(p, op) =>
                /\ UNCHANGED store
                /\ (Entitled(call'[p].tok, now) /\ call'[p].tok.type = "trainer") =>
                      /\ pc'[p] = "idle"
                      /\ call'[p].resp = AdminRequired
                /\ pc'[p] # "idle" =>
                      /\ Entitled(call'[p].tok, now)
                      /\ call'[p].tok.type = "admin"
                      /\ call'[p].user.role = "admin"
       /\ ~UNCHANGED store =>
             \E p \in Procs :
                 /\ pc[p] # "idle"
                 /\ call[p].op \in AdminOps
                 /\ call[p].user.role = "admin"]_vars

\* reached: a trainer's token was refused at the gate of delete
C18_TrainerRefused ==
    /\ pc[1] = "idle"
    /\ call[1].op = "delete"
    /\ call[1].tok.type = "trainer"
    /\ call[1].resp = AdminRequired
    /\ call[1].id \in DOMAIN codes

(* ---------------------------------- C19 ------------------------------- *)
\* slot p leaves label in this step
Leaves(p, label) == pc[p] = label /\ pc'[p] # label

\* the row the request in slot p names exists and has another owner than
\* the caller
NamesForeignRow(p) ==
    /\ call[p].id \in DOMAIN questions
    /\ questions[call[p].id].trainer_id # call[p].user.id

\* C19: a trainer's update or delete of a question whose trainer_id is not
\* the caller's id is answered 404 "Question not found" and trainer_questions
\* stays as it is; a question row changes or disappears only in the update
\* or delete step of a request whose caller has the id in the row's
\* trainer_id.
C19_ForeignQuestionNotFound ==
    [][/\ \A p \in Procs : \A label \in {"q_update_select", "q_delete_select"} :
             (/\ Leaves(p, label)
              /\ call[p].user.role = "trainer"
              /\ NamesForeignRow(p)) =>
                 /\ pc'[p] = "idle"
                 /\ call'[p].resp = QuestionNotFound
                 /\ call'[p].resp.status = 404
                 /\ questions' = questions
       /\ \A q \in DOMAIN questions :
             (q \notin DOMAIN questions' \/ questions'[q] # questions[q]) =>
                 \E p \in Procs :
                     /\ pc[p] \in {"q_update_update", "q_delete_delete"}
                     /\ call[p].id = q
                     /\ call[p].user.id = questions[q].trainer_id]_vars

\* reached: a trainer asked to update another trainer's question, was
\* answered 404, and the row is as it was seeded
C19_ForeignUpdateRefused ==
    /\ pc[1] = "idle"
    /\ call[1].op = "q_update"
    /\ call[1].user.role = "trainer"
    /\ call[1].text # NoText
    /\ call[1].resp = QuestionNotFound
    /\ call[1].id \in DOMAIN questions
    /\ questions[call[1].id].trainer_id # call[1].user.id
    /\ questions[call[1].id].content = "a"

(* ---------------------------------- C20 ------------------------------- *)
\* C20: an admin caller reads every question row and its update and delete
\* go through on every existing row, whatever its trainer_id; a trainer
\* caller reads only the rows with its own id in trainer_id, and its update
\* and delete go through on those rows only.
C20_AdminUnscopedTrainerScoped ==
    [][\A p \in Procs :
          /\ Leaves(p, "q_list_select") =>
                call'[p].rows = IF call[p].user.role = "admin"
                                THEN DOMAIN questions
                                ELSE QuestionsOf(call[p].user)
          /\ (Leaves(p, "q_update_select") /\ call[p].id \in DOMAIN questions) =>
                IF call[p].user.role = "admin" \/ ~NamesForeignRow(p)
                THEN pc'[p] = "q_update_update"
                ELSE pc'[p] = "idle" /\ call'[p].resp = QuestionNotFound
          /\ (Leaves(p, "q_delete_select") /\ call[p].id \in DOMAIN questions) =>
                IF call[p].user.role = "admin" \/ ~NamesForeignRow(p)
                THEN pc'[p] = "q_delete_delete"
                ELSE pc'[p] = "idle" /\ call'[p].resp = QuestionNotFound]_vars

\* C20, the part that holds: the reads and writes of every caller, trainer
\* or admin, are restricted to the rows with the caller's id in trainer_id
C20_EveryCallerScoped ==
    [][\A p \in Procs :
          /\ Leaves(p, "q_list_select") => call'[p].rows = QuestionsOf(call[p].user)
          /\ (Leaves(p, "q_update_select") /\ call[p].id \in DOMAIN questions) =>
                IF ~NamesForeignRow(p)
                THEN pc'[p] = "q_update_update"
                ELSE pc'[p] = "idle" /\ call'[p].resp = QuestionNotFound
          /\ (Leaves(p, "q_delete_select") /\ call[p].id \in DOMAIN questions) =>
                IF ~NamesForeignRow(p)
                THEN pc'[p] = "q_delete_delete"
                ELSE pc'[p] = "idle" /\ call'[p].resp = QuestionNotFound]_vars

(* ---------------------------------- C21 ------------------------------- *)
\* the signature verifies, there is a sub claim, and time t is before exp
Verified(tok, t) == tok.signed /\ tok.sub # "" /\ t < tok.exp

\* a token of the same role as tok whose sub names no row (ids start at 1)
NoRowToken(tok) == Token("0", tok.type, tok.exp, TRUE)

\* C21: a request with a verified token of a role whose row exists with
\* is_active FALSE is answered exactly (status and detail) as a request with
\* a verified token of that role whose row does not exist; and any two
\* consecutive /auth/me requests with verified tokens of the same role that
\* are both refused carry the same response.
C21_MissingAndInactiveAlike ==
    [][\A p \in Procs :
          /\ \A op \in {"me"} \cup AdminOps :
                (/\ Begins(p, op)
                 /\ Verified(call'[p].tok, now)
                 /\ call'[p].tok.type \in {"admin", "trainer"}
                 /\ ~ActiveRowOf(call'[p].tok)) =>
                    /\ pc'[p] = "idle"
                    /\ call'[p].resp = ResolveUser(NoRowToken(call'[p].tok)).resp
                    /\ call'[p].resp.status = 401
          /\ (/\ Begins(p, "me")
              /\ call[p].op = "me"
              /\ Verified(call[p].tok, call[p].at)
              /\ Verified(call'[p].tok, now)
              /\ call[p].tok.type = call'[p].tok.type
              /\ call[p].resp # Ok
              /\ call'[p].resp # Ok) =>
                 call'[p].resp = call[p].resp]_vars

\* reached: a verified token of a deactivated trainer was answered as the
\* verified token of a trainer id that has no row is answered
C21_InactiveAnsweredAsMissing ==
    /\ pc[1] = "idle"
    /\ call[1].op = "me"
    /\ Verified(call[1].tok, call[1].at)
    /\ \E i \in NamedTrainers(call[1].tok) : ~trainers[i].is_active
    /\ \E j \in TrainerIds : j \notin DOMAIN trainers
    /\ call[1].resp = ResolveUser(NoRowToken(call[1].tok)).resp

(* ---------------------------------- C22 ------------------------------- *)
\* a store call of the request in slot p raises in this step
Raises(p) == call'[p].failed /\ call'[p] # call[p]

\* C22: when a store call of a request raises (in get_current_user, login,
\* register or a code route), the request is answered in that step, with no
\* further store call, by a generic failure: status 500, which is none of
\* 401, 403, 404 and 400, and never the success answer.
C22_StoreFailureIsDependencyError ==
    [][\A p \in Procs :
          Raises(p) =>
             /\ pc'[p] = "idle"
             /\ UNCHANGED store
             /\ call'[p].resp.status = 500
             /\ call'[p].resp.status \notin {400, 401, 403, 404}
             /\ call'[p].resp # Ok]_vars

\* C22, the part that holds: every store failure is answered at once and
\* leaves the tables alone; apart from the select of get_current_user
\* (answered 401) and the usage update of register (answered with the new
\* trainer) the answer is a 500
C22_FailuresAnsweredAtOnce ==
    [][\A p \in Procs :
          Raises(p) =>
             /\ pc'[p] = "idle"
             /\ UNCHANGED store
             /\ IF pc[p] = "idle" /\ call'[p].op \in {"me"} \cup AdminOps
                THEN call'[p].resp = UserNotFound
                ELSE IF pc[p] = "reg_update"
                THEN call'[p].resp = Ok
                ELSE call'[p].resp.status = 500]_vars

(* ---------------------------------- C23 ------------------------------- *)
\* C23: when the update of registration_codes that follows the insert of
\* the trainer raises, register answers with the new trainer as a success,
\* and the inserted trainer row stays as it was inserted.
C23_UsageMarkFailureNonFatal ==
    [][\A p \in Procs :
          (pc[p] = "reg_update" /\ Raises(p)) =>
             /\ pc'[p] = "idle"
             /\ call'[p].resp = Ok
             /\ call'[p].new_id \in DOMAIN trainers
             /\ trainers' = trainers
             /\ trainers'[call'[p].new_id] = TrainerRow(call[p].email, call[p].password)]_vars

\* reached: register was answered with the new trainer although its usage
\* update raised, and the trainer row is in the table
C23_RegisteredDespiteFailure ==
    /\ pc[1] = "idle"
    /\ call[1].op = "register"
    /\ call[1].failed
    /\ call[1].resp = Ok
    /\ call[1].new_id \in DOMAIN trainers
    /\ trainers[call[1].new_id].email = call[1].email

(* ---------------------------------- C24 ------------------------------- *)
\* slot p holds the answer of a change_password that succeeded and replaced
\* the password by another one
ChangedPassword(p) ==
    /\ call[p].op = "change_password"
    /\ call[p].resp = Ok
    /\ call[p].password # call[p].new_password

\* C24: with one request at a time, change_password with a current password
\* that does not verify against the caller's stored hash is answered 400
\* "Current password is incorrect" and no table changes; a change_password
\* that succeeds changes the password_hash of the caller's row and nothing
\* else; the login that follows it with the caller's email returns a token
\* of the caller for the new password and none for the old password (a
\* trainer's login is answered by the stored hash alone: a token for the
\* password it was made from, 401 for any other).
C24_ChangePassword ==
    [][\A p \in Procs :
          /\ (/\ Leaves(p, "cp_select")
              /\ StoredPasswords(call[p].user) # {}
              /\ \A h \in StoredPasswords(call[p].user) : ~Verifies(call[p].password, h)) =>
                 /\ pc'[p] = "idle"
                 /\ call'[p].resp = WrongPassword
                 /\ UNCHANGED store
          /\ Answers(p, "cp_update") =>
                 /\ call'[p].resp = Ok
                 /\ UNCHANGED <<codes, nextCodeId, nextTrainerId>>
                 /\ DOMAIN admins' = DOMAIN admins
                 /\ DOMAIN trainers' = DOMAIN trainers
                 /\ \A a \in DOMAIN admins :
                       admins'[a] =
                          IF call[p].user.role = "admin" /\ a = call[p].user.id
                          THEN [admins[a] EXCEPT
                                   !.password_hash = hash_password(call[p].new_password)]
                          ELSE admins[a]
                 /\ \A t \in DOMAIN trainers :
                       trainers'[t] =
                          IF call[p].user.role = "trainer" /\ IdStr(t) = call[p].user.id
                          THEN [trainers[t] EXCEPT
                                   !.password_hash = hash_password(call[p].new_password)]
                          ELSE trainers[t]
          /\ (/\ Begins(p, "login")
              /\ ChangedPassword(p)
              /\ call'[p].email = call[p].user.email) =>
                 /\ (/\ call'[p].password = call[p].password) =>
                        ~(pc'[p] = "idle" /\ call'[p].resp = Ok)
                 /\ (/\ call'[p].password = call[p].new_password
                     /\ call[p].user.role = "admin") =>
                        /\ pc'[p] = "idle"
                        /\ call'[p].resp = Ok
                        /\ call'[p].token.sub = call[p].user.id
                        /\ call'[p].token.type = "admin"
          /\ Answers(p, "login_select_trainer") =>
                 /\ TrainersByEmail(call[p].email) = {} =>
                        call'[p].resp = InvalidCredentials
                 /\ \A t \in TrainersByEmail(call[p].email) : \A n \in Passwords :
                        trainers[t].password_hash = hash_password(n) =>
                           IF call[p].password = n
                           THEN /\ call'[p].resp = Ok
                                /\ call'[p].token.sub = IdStr(t)
                                /\ call'[p].token.type = "trainer"
                           ELSE call'[p].resp = InvalidCredentials]_vars

\* C24 for every login other than the development credential of login
C24_HoldsApartFromMock ==
    [][\A p \in Procs :
          /\ (/\ Leaves(p, "cp_select")
              /\ StoredPasswords(call[p].user) # {}
              /\ \A h \in StoredPasswords(call[p].user) : ~Verifies(call[p].password, h)) =>
                 /\ pc'[p] = "idle"
                 /\ call'[p].resp = WrongPassword
                 /\ UNCHANGED store
          /\ Answers(p, "cp_update") =>
                 /\ call'[p].resp = Ok
                 /\ UNCHANGED <<codes, nextCodeId, nextTrainerId>>
                 /\ DOMAIN admins' = DOMAIN admins
                 /\ DOMAIN trainers' = DOMAIN trainers
                 /\ \A a \in DOMAIN admins :
                       admins'[a] =
                          IF call[p].user.role = "admin" /\ a = call[p].user.id
                          THEN [admins[a] EXCEPT
                                   !.password_hash = hash_password(call[p].new_password)]
                          ELSE admins[a]
                 /\ \A t \in DOMAIN trainers :
                       trainers'[t] =
                          IF call[p].user.role = "trainer" /\ IdStr(t) = call[p].user.id
                          THEN [trainers[t] EXCEPT
                                   !.password_hash = hash_password(call[p].new_password)]
                          ELSE trainers[t]
          /\ (/\ Begins(p, "login")
              /\ ChangedPassword(p)
              /\ call'[p].email = call[p].user.email) =>
                 /\ (/\ call'[p].password = call[p].password
                     /\ ~(call'[p].email = AdminEmail /\ call'[p].password = MockPassword)) =>
                        ~(pc'[p] = "idle" /\ call'[p].resp = Ok)
                 /\ (/\ call'[p].password = call[p].new_password
                     /\ call[p].user.role = "admin") =>
                        /\ pc'[p] = "idle"
                        /\ call'[p].resp = Ok
                        /\ call'[p].token.sub = call[p].user.id
                        /\ call'[p].token.type = "admin"
          /\ Answers(p, "login_select_trainer") =>
                 /\ TrainersByEmail(call[p].email) = {} =>
                        call'[p].resp = InvalidCredentials
                 /\ \A t \in TrainersByEmail(call[p].email) : \A n \in Passwords :
                        trainers[t].password_hash = hash_password(n) =>
                           IF call[p].password = n
                           THEN /\ call'[p].resp = Ok
                                /\ call'[p].token.sub = IdStr(t)
                                /\ call'[p].token.type = "trainer"
                           ELSE call'[p].resp = InvalidCredentials]_vars

(* ---------------------------------- C25 ------------------------------- *)
\* the handler in slot p was started for a token that passed verification
\* and was resolved to the row its claims name
StartedForResolvedToken(p) ==
    /\ call[p].op \in ProtectedOps
    /\ call[p].tok.signed
    /\ call[p].tok.sub # ""
    /\ call[p].user # NoUser
    /\ call[p].user.id = call[p].tok.sub
    /\ call[p].user.role = call[p].tok.type

\* C25: a request to a writing route other than register changes no table
\* in the step of its dependency, and its handler starts only for a token
\* that is entitled (verified, and resolved to an active row of the claimed
\* role); every step that changes a table is a step of register, which
\* carries no token, or of a handler started so.
C25_OnlyRegisterWritesWithoutToken ==
    [][/\ \A p \in Procs : \A op \in ProtectedOps :
             Begins(p, op) =>
                /\ UNCHANGED <<store, qstore>>
                /\ pc'[p] # "idle" =>
                      /\ Entitled(call'[p].tok, now)
                      /\ call'[p].user.id = call'[p].tok.sub
                      /\ call'[p].user.role = call'[p].tok.type
       /\ ~UNCHANGED <<store, qstore>> =>
             \E p \in Procs :
                 /\ pc[p] # "idle"
                 /\ \/ call[p].op = "register" /\ call[p].tok = NoToken
                    \/ StartedForResolvedToken(p)]_vars

\* reached: register has inserted a trainer without a token, and a
\* change_name request without an Authorization header was refused
C25_RegisteredThenRefused ==
    /\ \E t \in DOMAIN createdFrom : createdFrom[t] # ""
    /\ pc[1] = "idle"
    /\ call[1].op = "change_name"
    /\ call[1].tok = NoToken
    /\ call[1].resp \in NotAuthenticated
    /\ \A t \in DOMAIN trainers : trainers[t].name = RegisteredName

(* ---------------------------------- C26 ------------------------------- *)
\* C26: login answers with a token only when a row of admins or trainers
\* has the email and the password verifies against the password_hash of
\* that row; the sub and the type of the token are the id and the table of
\* that row; every other login is answered 401 without a token.
C26_TokenOnlyForStoredIdentity ==
    [][\A p \in Procs :
          (/\ call'[p].op = "login"
           /\ call'[p] # call[p]
           /\ pc'[p] = "idle") =>
              /\ call'[p].resp \in {Ok, InvalidCredentials}
              /\ call'[p].resp = InvalidCredentials => call'[p].token = NoToken
              /\ call'[p].resp = Ok =>
                    /\ call'[p].token.signed
                    /\ \/ \E a \in AdminsByEmail(call'[p].email) :
                             /\ Verifies(call'[p].password, admins[a].password_hash)
                             /\ call'[p].token.sub = a
                             /\ call'[p].token.type = "admin"
                       \/ \E t \in TrainersByEmail(call'[p].email) :
                             /\ Verifies(call'[p].password, trainers[t].password_hash)
                             /\ call'[p].token.sub = IdStr(t)
                             /\ call'[p].token.type = "trainer"]_vars

\* C26 for every pair other than the development credential of login
C26_HoldsApartFromMock ==
    [][\A p \in Procs :
          (/\ call'[p].op = "login"
           /\ call'[p] # call[p]
           /\ pc'[p] = "idle"
           /\ ~(call'[p].email = AdminEmail /\ call'[p].password = MockPassword)) =>
              /\ call'[p].resp \in {Ok, InvalidCredentials}
              /\ call'[p].resp = InvalidCredentials => call'[p].token = NoToken
              /\ call'[p].resp = Ok =>
                    /\ call'[p].token.signed
                    /\ \/ \E a \in AdminsByEmail(call'[p].email) :
                             /\ Verifies(call'[p].password, admins[a].password_hash)
                             /\ call'[p].token.sub = a
                             /\ call'[p].token.type = "admin"
                       \/ \E t \in TrainersByEmail(call'[p].email) :
                             /\ Verifies(call'[p].password, trainers[t].password_hash)
                             /\ call'[p].token.sub = IdStr(t)
                             /\ call'[p].token.type = "trainer"]_vars

(* ---------------------------------- C27 ------------------------------- *)
\* C27: with one request at a time and a clock that only advances, a
\* register answered 400 "... has expired" changes no table and leaves
\* is_used FALSE; a code whose expires_at is null is never answered so; and
\* every register with a code whose stored expiry is past is answered
\* "... has expired" or "... already been used" and creates nothing,
\* whatever activate and deactivate calls came before.
C27_ExpiryDerivedAtRead ==
    [][\A p \in Procs :
          Begins(p, "register") =>
             /\ call'[p].resp = Expired =>
                   /\ UNCHANGED store
                   /\ \A i \in CodesByCode(call'[p].code) : ~codes'[i].is_used
             /\ \A i \in CodesByCode(call'[p].code) :
                   /\ codes[i].expires_at.isnull => call'[p].resp # Expired
                   /\ (/\ ~codes[i].expires_at.isnull
                       /\ PastExpiry(now, codes[i].expires_at)) =>
                         /\ pc'[p] = "idle"
                         /\ call'[p].resp \in {Expired, AlreadyUsed}
                         /\ UNCHANGED store]_vars

\* C27 for the codes whose stored expiry carries no UTC offset
C27_HoldsWithoutOffset ==
    [][\A p \in Procs :
          Begins(p, "register") =>
             /\ call'[p].resp = Expired =>
                   /\ UNCHANGED store
                   /\ \A i \in CodesByCode(call'[p].code) : ~codes'[i].is_used
             /\ \A i \in CodesByCode(call'[p].code) :
                   /\ codes[i].expires_at.isnull => call'[p].resp # Expired
                   /\ (/\ ~codes[i].expires_at.isnull
                       /\ ~codes[i].expires_at.tz
                       /\ PastExpiry(now, codes[i].expires_at)) =>
                         /\ pc'[p] = "idle"
                         /\ call'[p].resp \in {Expired, AlreadyUsed}
                         /\ UNCHANGED store]_vars

(* ---------------------------------- C28 ------------------------------- *)
\* C28: the write of every toggle_trainer_status that completes leaves the
\* stored is_active of its trainer negated, in whatever order the selects
\* and updates of concurrent toggles are taken (so that after n completed
\* toggles the flag is the initial one negated n times: is_active is
\* written in these steps only), and the toggle reports the value it
\* stored; a toggle of an id that has no row is answered 404 "Trainer not
\* found" and changes nothing.
C28_NoToggleLost ==
    [][\A p \in Procs :
          /\ (Answers(p, "toggle_update") /\ call[p].id \in DOMAIN trainers) =>
                /\ call'[p].resp = Ok
                /\ \A t \in DOMAIN trainers :
                      trainers'[t] =
                         IF t = call[p].id
                         THEN [trainers[t] EXCEPT !.is_active = ~trainers[t].is_active]
                         ELSE trainers[t]
                /\ call'[p].new_status = trainers'[call[p].id].is_active
          /\ (Leaves(p, "toggle_select") /\ call[p].id \notin DOMAIN trainers) =>
                /\ pc'[p] = "idle"
                /\ call'[p].resp = TrainerNotFound
                /\ UNCHANGED store
          /\ (\A q \in Procs : pc[q] # "toggle_update") =>
                \A t \in DOMAIN trainers : trainers'[t].is_active = trainers[t].is_active]_vars

(* ---------------------------------- C29 ------------------------------- *)
\* C29: create_trainer_question with a category id that has no row is
\* answered 400 "Invalid category ID" and inserts no question row.
C29_UnknownCategoryIsClientError ==
    [][\A p \in Procs :
          (Leaves(p, "q_create_select") /\ call[p].category \notin DOMAIN categories) =>
             /\ pc'[p] = "idle"
             /\ call'[p].resp = InvalidCategory
             /\ call'[p].resp.status = 400
             /\ questions' = questions]_vars

\* C29, the part that holds: the request is refused and inserts no row; the
\* answer is the 500 of the handler's except Exception
C29_UnknownCategoryRefused ==
    [][\A p \in Procs :
          (Leaves(p, "q_create_select") /\ call[p].category \notin DOMAIN categories) =>
             /\ pc'[p] = "idle"
             /\ call'[p].resp = CreateQuestionFailed
             /\ questions' = questions]_vars

(* ---------------------------------- C30 ------------------------------- *)
\* C30: in every reachable state the category_id of every row of
\* trainer_questions is the id of a row of question_categories, also when
\* delete_question_category and create_trainer_question interleave.
C30_QuestionsPointToCategories ==
    \A q \in DOMAIN questions : questions[q].category_id \in DOMAIN categories

\* C30, the part that holds: with one request at a time a delete of a
\* category that a question uses is refused, and no step breaks the
\* reference of a question to its category
C30_SequentialIntegrity ==
    [][/\ C30_QuestionsPointToCategories => C30_QuestionsPointToCategories'
       /\ \A p \in Procs :
             (Leaves(p, "cat_delete_check") /\ QuestionsUsing(call[p].id) # {}) =>
                /\ pc'[p] = "idle"
                /\ call'[p].resp = CategoryInUse
                /\ categories' = categories]_vars

====
